---- MODULE Spec2Model ----
(***************************************************************************)
(* LedgerLite: the entity store, its repositories, the monthly aggregation *)
(* queries and the date helpers, modelled from src/ledgerlite.             *)
(*                                                                         *)
(* Encodings                                                               *)
(*   datetime  an integer number of ticks: ordinal day * TicksPerDay +     *)
(*             tick of day (tick 0 is midnight); the ordinal day is the    *)
(*             proleptic Gregorian ordinal (0001-01-01 is day 1)           *)
(*   Decimal   an integer number of thousandths ("mills"); the store's     *)
(*             Numeric(15, 2) column hands values back at 2 places         *)
(*   str       a month token is a sequence of one-character strings        *)
(***************************************************************************)
EXTENDS Integers, Sequences, FiniteSets, TLC

VARIABLES
    accounts,      \* table accounts: set of rows
    categories,    \* table categories: set of rows
    transactions,  \* table transactions: set of rows
    budgets,       \* table budgets: set of rows
    sessions,      \* the open SQLAlchemy sessions
    held,          \* the entity object a caller holds (form.transaction / form.category)
    last,          \* what the last repository call was and what it returned
    arg,           \* input of the helper function under evaluation
    res,           \* what the helper function returned
    file,          \* the configuration file on disk
    config,        \* Config._config of the running application
    current_month, \* MainWindow.current_month, <<>> while there is no window
    viewed,        \* the month the window showed when the application last ended
    seeded,        \* the default data has been committed by an earlier run
    widgets        \* the month label and the pages of the main window

vars == <<accounts, categories, transactions, budgets, sessions, held, last, arg, res,
          file, config, current_month, viewed, seeded, widgets>>

storeVars == <<accounts, categories, transactions, budgets>>
ormVars == <<sessions, held, last>>
dateVars == <<arg, res>>
cfgVars == <<file, config, current_month, viewed, seeded, widgets>>

-----------------------------------------------------------------------------
(* Bounds of the model *)

TicksPerDay == 2    \* instants distinguished within one calendar day
MaxAccountId == 1   \* largest account id the store hands out
MaxCategoryId == 2  \* largest category id the store hands out
MaxTxId == 2        \* largest transaction id the store hands out
MaxBudgetId == 1    \* largest budget id the store hands out
MaxSessions == 2    \* sessions open at the same time

-----------------------------------------------------------------------------
(* datetime / timedelta arithmetic, as used by utils/dates.py and the pages *)

IsLeap(y) == (y % 4 = 0) /\ ((y % 100 # 0) \/ (y % 400 = 0))

DaysInMonthOf(y, m) ==
    IF m = 2 THEN (IF IsLeap(y) THEN 29 ELSE 28)
    ELSE IF m \in {4, 6, 9, 11} THEN 30 ELSE 31

DaysBeforeYear(y) ==
    (y - 1) * 365 + ((y - 1) \div 4) - ((y - 1) \div 100) + ((y - 1) \div 400)

RECURSIVE DaysBeforeMonth(_, _)
DaysBeforeMonth(y, m) ==
    IF m = 1 THEN 0 ELSE DaysBeforeMonth(y, m - 1) + DaysInMonthOf(y, m - 1)

Ymd2Ord(y, m, d) == DaysBeforeYear(y) + DaysBeforeMonth(y, m) + d

RECURSIVE YearFrom(_, _)
YearFrom(n, y) == IF DaysBeforeYear(y + 1) >= n THEN y ELSE YearFrom(n, y + 1)

RECURSIVE MonthFrom(_, _, _)
MonthFrom(y, r, m) ==
    IF r <= DaysBeforeMonth(y, m) + DaysInMonthOf(y, m) THEN m ELSE MonthFrom(y, r, m + 1)

\* date.fromordinal(n) as [year, month, day]
Ord2Ymd(n) ==
    LET y == YearFrom(n, (n \div 366) + 1)
        r == n - DaysBeforeYear(y)
        m == MonthFrom(y, r, 1)
    IN  [year |-> y, month |-> m, day |-> r - DaysBeforeMonth(y, m)]

\* datetime(y, m, d): midnight of that day
DateTime(y, m, d) == Ymd2Ord(y, m, d) * TicksPerDay

\* timedelta(days = n)
TimeDelta(n) == n * TicksPerDay

\* datetime.date(): the calendar day (an ordinal) of an instant
DateOf(dt) == dt \div TicksPerDay

\* datetime.combine(date, datetime.min.time())
Combine(ord) == ord * TicksPerDay

-----------------------------------------------------------------------------
(* Month tokens "YYYY-MM" *)

Digits == <<"0", "1", "2", "3", "4", "5", "6", "7", "8", "9">>

DigitChar(n) == Digits[n + 1]

DigitVal(c) == (CHOOSE i \in 1..10 : Digits[i] = c) - 1

\* int(s) for a string of decimal digits
RECURSIVE ToInt(_)
ToInt(s) ==
    IF Len(s) = 0 THEN 0
    ELSE ToInt(SubSeq(s, 1, Len(s) - 1)) * 10 + DigitVal(s[Len(s)])

\* s.split("-") for a string holding exactly one dash
SplitDash(s) ==
    LET i == CHOOSE k \in 1..Len(s) : s[k] = "-" /\ \A j \in 1..(k - 1) : s[j] # "-"
    IN  <<SubSeq(s, 1, i - 1), SubSeq(s, i + 1, Len(s))>>

\* year, month_num = map(int, month.split("-"))
ParseMonth(month) ==
    LET parts == SplitDash(month)
    IN  [year |-> ToInt(parts[1]), month_num |-> ToInt(parts[2])]

\* str(n) for n >= 0
RECURSIVE ToStr(_)
ToStr(n) == IF n < 10 THEN <<DigitChar(n)>> ELSE ToStr(n \div 10) \o <<DigitChar(n % 10)>>

\* f"{n:02d}" for n >= 0
Pad2(n) == IF n < 10 THEN <<"0">> \o ToStr(n) ELSE ToStr(n)

\* strftime("%Y-%m") / f"{year}-{month_num:02d}" for a 4-digit year
FormatMonth(y, m) == ToStr(y) \o <<"-">> \o Pad2(m)

-----------------------------------------------------------------------------
(* utils/dates.py and the pages' own copies of the month range *)

\* the years the date helpers are evaluated on: century non-leap years, a
\* century leap year, an ordinary year and an ordinary leap year
Years == {1900, 2000, 2023, 2024, 2100}

MonthTokens == {FormatMonth(y, m) : y \in Years, m \in 1..12}

\* get_month_date_range without the December branch's year + 1
get_month_date_range_same_year(month) ==
    LET p == ParseMonth(month)
        start_date == DateTime(p.year, p.month_num, 1)
        end_date == IF p.month_num = 12
                    THEN DateTime(p.year, 1, 1) - TimeDelta(1)
                    ELSE DateTime(p.year, p.month_num + 1, 1) - TimeDelta(1)
    IN  <<start_date, end_date>>

get_month_date_range(month) ==
    LET p == ParseMonth(month)
        start_date == DateTime(p.year, p.month_num, 1)
        end_date == IF p.month_num = 12
                    THEN DateTime(p.year + 1, 1, 1) - TimeDelta(1)
                    ELSE DateTime(p.year, p.month_num + 1, 1) - TimeDelta(1)
    IN  <<start_date, end_date>>

Dashboard_get_month_date_range(month) ==
    LET p == ParseMonth(month)
        start_date == DateTime(p.year, p.month_num, 1)
        end_date == IF p.month_num = 12
                    THEN DateTime(p.year + 1, 1, 1) - TimeDelta(1)
                    ELSE DateTime(p.year, p.month_num + 1, 1) - TimeDelta(1)
    IN  <<start_date, end_date>>

\* (end_date - start_date).days + 1
get_days_in_month(month) ==
    LET r == get_month_date_range(month)
    IN  ((r[2] - r[1]) \div TicksPerDay) + 1

NoRes == [fn |-> "none", a |-> 0, b |-> 0]

Call_get_month_date_range ==
    /\ res' = [fn |-> "get_month_date_range",
               a |-> get_month_date_range(arg)[1], b |-> get_month_date_range(arg)[2]]
    /\ UNCHANGED <<arg, storeVars, ormVars, cfgVars>>

Call_Dashboard_get_month_date_range ==
    /\ res' = [fn |-> "DashboardPage.get_month_date_range",
               a |-> Dashboard_get_month_date_range(arg)[1],
               b |-> Dashboard_get_month_date_range(arg)[2]]
    /\ UNCHANGED <<arg, storeVars, ormVars, cfgVars>>

Call_get_days_in_month ==
    /\ res' = [fn |-> "get_days_in_month", a |-> get_days_in_month(arg), b |-> 0]
    /\ UNCHANGED <<arg, storeVars, ormVars, cfgVars>>

NoEntity == [kind |-> "none"]
NoCall == [op |-> "none"]

\* no configuration file, no Config object and no main window
NoFile == [kind |-> "missing"]
NoConfig == [type |-> "none"]

\* what a page shows: the rows it loaded
NoRows == [categories |-> {}, transactions |-> {}]

\* no main window: no label text, no pages, no signal under delivery
NoWidgets ==
    [month_label |-> <<>>,
     dashboard_page |-> [current_month |-> <<>>, shown |-> NoRows],
     transactions_page |-> [current_month |-> <<>>, shown |-> NoRows],
     categories_page |-> [shown |-> NoRows],
     stacked_widget |-> "none",
     slots |-> <<>>,
     refreshed |-> <<>>]

NoApplication ==
    /\ file = NoFile /\ config = NoConfig /\ current_month = <<>> /\ viewed = <<>>
    /\ seeded = FALSE /\ widgets = NoWidgets

InitDates ==
    /\ arg \in MonthTokens
    /\ res = NoRes
    /\ accounts = {} /\ categories = {} /\ transactions = {} /\ budgets = {}
    /\ sessions = {} /\ held = NoEntity /\ last = NoCall
    /\ NoApplication

NextDates ==
    \/ Call_get_month_date_range
    \/ Call_Dashboard_get_month_date_range
    \/ Call_get_days_in_month

SpecDates == InitDates /\ [][NextDates]_vars

-----------------------------------------------------------------------------
(* data/models.py: the tables.  A row is a record of its columns; created_at *)
(* (a server default no query reads) is left out.  The attachments table has *)
(* no repository and no writer, so it stays empty and is left out.           *)

None == "None"     \* Python None in a text column

NoId == 0          \* Python None in an integer column (ids start at 1)

\* Column(Numeric(15, 2)) on SQLite: the value is bound as a float and kept
\* as given; what comes back is Decimal("%.2f" % value), i.e. the value
\* rounded to 2 places (in mills: to a multiple of 10, ties to even)
Numeric2(mills) ==
    LET q == mills \div 10
        r == mills % 10
    IN  IF r > 5 \/ (r = 5 /\ q % 2 = 1) THEN (q + 1) * 10 ELSE q * 10

\* a Transaction object loaded from its row
TransactionEntity(row) == [row EXCEPT !.amount = Numeric2(@)]

Ids(table) == {r.id : r \in table}

Max(S) == CHOOSE x \in S : \A y \in S : y <= x

\* Column(Integer, primary_key=True) handed out as the count of rows + 1
NextIdByCount(table) == Cardinality(table) + 1

\* Column(Integer, primary_key=True): SQLite's rowid, one more than the
\* largest id in the table
NextId(table) == IF table = {} THEN 1 ELSE Max(Ids(table)) + 1

-----------------------------------------------------------------------------
(* data/repo.py *)

AccountRow(id, in) ==
    [id |-> id, name |-> in.name, type |-> in.type, currency |-> in.currency]

CategoryRow(id, in) ==
    [id |-> id, name |-> in.name, type |-> in.type, color_hex |-> in.color_hex,
     parent_id |-> in.parent_id]

TransactionRow(id, in) ==
    [id |-> id, account_id |-> in.account_id, category_id |-> in.category_id,
     date |-> in.date, amount |-> in.amount, type |-> in.type, note |-> in.note]

BudgetRow(id, in) ==
    [id |-> id, category_id |-> in.category_id, month |-> in.month,
     amount_cap |-> in.amount_cap]

AccountRepository_get_by_id(account_id) == {a \in accounts : a.id = account_id}

CategoryRepository_get_by_id(category_id) == {c \in categories : c.id = category_id}

TransactionRepository_get_by_id(transaction_id) ==
    {TransactionEntity(t) : t \in {r \in transactions : r.id = transaction_id}}

AccountRepository_create(in) ==
    /\ NextId(accounts) <= MaxAccountId
    /\ accounts' = accounts \cup {AccountRow(NextId(accounts), in)}
    /\ last' = [op |-> "AccountRepository.create", id |-> NextId(accounts),
                ret |-> "returned", in |-> in]
    /\ UNCHANGED <<categories, transactions, budgets, sessions, held, dateVars, cfgVars>>

CategoryRepository_create(in) ==
    /\ NextId(categories) <= MaxCategoryId
    /\ categories' = categories \cup {CategoryRow(NextId(categories), in)}
    /\ last' = [op |-> "CategoryRepository.create", id |-> NextId(categories),
                ret |-> "returned", in |-> in]
    /\ UNCHANGED <<accounts, transactions, budgets, sessions, held, dateVars, cfgVars>>

TransactionRepository_create(in) ==
    /\ NextId(transactions) <= MaxTxId
    /\ transactions' = transactions \cup {TransactionRow(NextId(transactions), in)}
    /\ last' = [op |-> "TransactionRepository.create", id |-> NextId(transactions),
                ret |-> "returned", in |-> in]
    /\ UNCHANGED <<accounts, categories, budgets, sessions, held, dateVars, cfgVars>>

\* BudgetRepository.create while the table holds budget ids up to limit only
BudgetRepository_create_upto(limit, in) ==
    /\ NextId(budgets) <= limit
    /\ budgets' = budgets \cup {BudgetRow(NextId(budgets), in)}
    /\ last' = [op |-> "BudgetRepository.create", id |-> NextId(budgets),
                ret |-> "returned", in |-> in]
    /\ UNCHANGED <<accounts, categories, transactions, sessions, held, dateVars, cfgVars>>

BudgetRepository_create(in) == BudgetRepository_create_upto(MaxBudgetId, in)

\* session.delete(account); session.commit().  Account.transactions has no
\* delete cascade, so the flush sets account_id of the account's transactions
\* to NULL; the column is NOT NULL, the flush raises IntegrityError and
\* nothing is committed.
AccountRepository_delete(account_id) ==
    /\ IF AccountRepository_get_by_id(account_id) = {}
       THEN /\ last' = [op |-> "AccountRepository.delete", id |-> account_id,
                        ret |-> "False"]
            /\ UNCHANGED accounts
       ELSE IF \E t \in transactions : t.account_id = account_id
       THEN /\ last' = [op |-> "AccountRepository.delete", id |-> account_id,
                        ret |-> "IntegrityError"]
            /\ UNCHANGED accounts
       ELSE /\ accounts' = {a \in accounts : a.id # account_id}
            /\ last' = [op |-> "AccountRepository.delete", id |-> account_id,
                        ret |-> "True"]
    /\ UNCHANGED <<categories, transactions, budgets, sessions, held, dateVars, cfgVars>>

\* CategoryRepository.delete with cascade="all, delete" on Category.transactions
\* and Category.budgets
CategoryRepository_delete_cascade(category_id) ==
    /\ IF CategoryRepository_get_by_id(category_id) = {}
       THEN /\ last' = [op |-> "CategoryRepository.delete", id |-> category_id,
                        ret |-> "False"]
            /\ UNCHANGED <<categories, transactions, budgets>>
       ELSE /\ categories' =
                {IF c.parent_id = category_id THEN [c EXCEPT !.parent_id = NoId] ELSE c :
                    c \in {x \in categories : x.id # category_id}}
            /\ transactions' = {t \in transactions : t.category_id # category_id}
            /\ budgets' = {b \in budgets : b.category_id # category_id}
            /\ last' = [op |-> "CategoryRepository.delete", id |-> category_id,
                        ret |-> "True"]
    /\ UNCHANGED <<accounts, sessions, held, dateVars, cfgVars>>

\* session.delete(category); session.commit().  Category.transactions and
\* Category.budgets have no delete cascade and NOT NULL foreign keys (the
\* flush raises IntegrityError); Category.children has a nullable one, so
\* the children's parent_id is set to NULL.
CategoryRepository_delete(category_id) ==
    /\ IF CategoryRepository_get_by_id(category_id) = {}
       THEN /\ last' = [op |-> "CategoryRepository.delete", id |-> category_id,
                        ret |-> "False"]
            /\ UNCHANGED categories
       ELSE IF \/ \E t \in transactions : t.category_id = category_id
               \/ \E b \in budgets : b.category_id = category_id
       THEN /\ last' = [op |-> "CategoryRepository.delete", id |-> category_id,
                        ret |-> "IntegrityError"]
            /\ UNCHANGED categories
       ELSE /\ categories' =
                {IF c.parent_id = category_id THEN [c EXCEPT !.parent_id = NoId] ELSE c :
                    c \in {x \in categories : x.id # category_id}}
            /\ last' = [op |-> "CategoryRepository.delete", id |-> category_id,
                        ret |-> "True"]
    /\ UNCHANGED <<accounts, transactions, budgets, sessions, held, dateVars, cfgVars>>

\* TransactionRepository.delete without the "if transaction:" test:
\* session.delete(None) raises
TransactionRepository_delete_unchecked(transaction_id) ==
    /\ IF TransactionRepository_get_by_id(transaction_id) = {}
       THEN /\ last' = [op |-> "TransactionRepository.delete", id |-> transaction_id,
                        ret |-> "UnmappedInstanceError"]
            /\ UNCHANGED transactions
       ELSE /\ transactions' = {t \in transactions : t.id # transaction_id}
            /\ last' = [op |-> "TransactionRepository.delete", id |-> transaction_id,
                        ret |-> "True"]
    /\ UNCHANGED <<accounts, categories, budgets, sessions, held, dateVars, cfgVars>>

TransactionRepository_delete(transaction_id) ==
    /\ IF TransactionRepository_get_by_id(transaction_id) = {}
       THEN /\ last' = [op |-> "TransactionRepository.delete", id |-> transaction_id,
                        ret |-> "False"]
            /\ UNCHANGED transactions
       ELSE /\ transactions' = {t \in transactions : t.id # transaction_id}
            /\ last' = [op |-> "TransactionRepository.delete", id |-> transaction_id,
                        ret |-> "True"]
    /\ UNCHANGED <<accounts, categories, budgets, sessions, held, dateVars, cfgVars>>

BudgetRepository_delete(budget_id) ==
    /\ IF {b \in budgets : b.id = budget_id} = {}
       THEN /\ last' = [op |-> "BudgetRepository.delete", id |-> budget_id,
                        ret |-> "False"]
            /\ UNCHANGED budgets
       ELSE /\ budgets' = {b \in budgets : b.id # budget_id}
            /\ last' = [op |-> "BudgetRepository.delete", id |-> budget_id,
                        ret |-> "True"]
    /\ UNCHANGED <<accounts, categories, transactions, sessions, held, dateVars, cfgVars>>

-----------------------------------------------------------------------------
(* The repositories driven by any caller *)

Mar15 == DateTime(2024, 3, 15)
Mar31 == DateTime(2024, 3, 31)

AccountInputs == {[name |-> "Cash", type |-> "cash", currency |-> "USD"]}

CategoryInputs ==
    {[name |-> "Food", type |-> "expense", color_hex |-> "#e74c3c", parent_id |-> NoId],
     [name |-> "Salary", type |-> "income", color_hex |-> "#27ae60", parent_id |-> 1]}

TransactionInputs ==
    {[account_id |-> 1, category_id |-> 1, date |-> Mar15, amount |-> 42500,
      type |-> "expense", note |-> "Lunch"],
     [account_id |-> 1, category_id |-> 2, date |-> Mar31, amount |-> 1004,
      type |-> "income", note |-> None]}

BudgetInputs == {[category_id |-> 1, month |-> "2024-03", amount_cap |-> 100000]}

Init ==
    /\ accounts = {} /\ categories = {} /\ transactions = {} /\ budgets = {}
    /\ sessions = {} /\ held = NoEntity /\ last = NoCall
    /\ NoApplication
    /\ arg = <<>> /\ res = NoRes

Next ==
    \/ \E in \in AccountInputs : AccountRepository_create(in)
    \/ \E in \in CategoryInputs : CategoryRepository_create(in)
    \/ \E in \in TransactionInputs : TransactionRepository_create(in)
    \/ \E in \in BudgetInputs : BudgetRepository_create(in)
    \/ \E id \in 1..(MaxAccountId + 1) : AccountRepository_delete(id)
    \/ \E id \in 1..(MaxCategoryId + 1) : CategoryRepository_delete(id)
    \/ \E id \in 1..(MaxTxId + 1) : TransactionRepository_delete(id)
    \/ \E id \in 1..(MaxBudgetId + 1) : BudgetRepository_delete(id)

Spec == Init /\ [][Next]_vars

-----------------------------------------------------------------------------
(* Sessions and the objects loaded through them.  held is the one entity     *)
(* object a caller keeps (TransactionForm.transaction, CategoryForm.category *)
(* or a repository caller's variable): its attributes (row) and the session  *)
(* it is persistent in (sess; Detached once that session is closed).         *)

Detached == 0

FreeSessions == (1..MaxSessions) \ sessions

\* db_manager.get_session_sync(): a new session
NewSession == CHOOSE s \in FreeSessions : \A t \in FreeSessions : s <= t

get_session_sync ==
    /\ FreeSessions # {}
    /\ sessions' = sessions \cup {NewSession}
    /\ UNCHANGED <<storeVars, held, last, dateVars, cfgVars>>

\* session.close(): the session's objects become detached
session_close(s) ==
    /\ s \in sessions
    /\ sessions' = sessions \ {s}
    /\ held' = IF held.kind # "none" /\ held.sess = s
               THEN [held EXCEPT !.sess = Detached] ELSE held
    /\ UNCHANGED <<storeVars, last, dateVars, cfgVars>>

\* the object a query of session s yields for a row: the session's own
\* object for that row if it has one (identity map), else a new one
Loaded(s, kind, entity) ==
    IF held.kind = kind /\ held.sess = s /\ held.row.id = entity.id
    THEN held
    ELSE [kind |-> kind, row |-> entity, sess |-> s]

\* transaction = TransactionRepository(session).get_by_id(id), kept by the caller
Load_transaction(s, id) ==
    /\ s \in sessions
    /\ \E e \in TransactionRepository_get_by_id(id) :
           held' = Loaded(s, "transaction", e)
    /\ UNCHANGED <<storeVars, sessions, last, dateVars, cfgVars>>

\* category = CategoryRepository(session).get_by_id(id), kept by the caller
Load_category(s, id) ==
    /\ s \in sessions
    /\ \E e \in CategoryRepository_get_by_id(id) :
           held' = Loaded(s, "category", e)
    /\ UNCHANGED <<storeVars, sessions, last, dateVars, cfgVars>>

\* the caller assigns the object's attributes
Mutate_transaction(in) ==
    /\ held.kind = "transaction"
    /\ held' = [held EXCEPT !.row = TransactionRow(held.row.id, in)]
    /\ UNCHANGED <<storeVars, sessions, last, dateVars, cfgVars>>

Mutate_category(in) ==
    /\ held.kind = "category"
    /\ held' = [held EXCEPT !.row = CategoryRow(held.row.id, in)]
    /\ UNCHANGED <<storeVars, sessions, last, dateVars, cfgVars>>

\* the UPDATE a flush emits for a transaction object: the attributes whose
\* value differs from the loaded one
FlushTransaction(r, o) ==
    [o EXCEPT !.amount = IF o.amount = Numeric2(r.amount) THEN r.amount ELSE o.amount]

\* TransactionRepository(session s).update(h): session.commit() flushes the
\* objects persistent in s; session.refresh(h) raises InvalidRequestError
\* unless h is persistent in s, and else reloads h from its row
TransactionRepository_update_result(s, h) ==
    LET rows == IF h.sess = s
                THEN {IF r.id = h.row.id THEN FlushTransaction(r, h.row) ELSE r :
                         r \in transactions}
                ELSE transactions
    IN  IF h.sess = s /\ \E r \in rows : r.id = h.row.id
        THEN [rows |-> rows,
              held |-> [h EXCEPT !.row =
                           TransactionEntity(CHOOSE r \in rows : r.id = h.row.id)],
              ret |-> "returned"]
        ELSE [rows |-> rows, held |-> h, ret |-> "InvalidRequestError"]

CategoryRepository_update_result(s, h) ==
    LET rows == IF h.sess = s
                THEN {IF r.id = h.row.id THEN h.row ELSE r : r \in categories}
                ELSE categories
    IN  IF h.sess = s /\ \E r \in rows : r.id = h.row.id
        THEN [rows |-> rows,
              held |-> [h EXCEPT !.row = CHOOSE r \in rows : r.id = h.row.id],
              ret |-> "returned"]
        ELSE [rows |-> rows, held |-> h, ret |-> "InvalidRequestError"]

TransactionRepository_update(s) ==
    /\ s \in sessions
    /\ held.kind = "transaction"
    /\ LET u == TransactionRepository_update_result(s, held)
       IN  /\ transactions' = u.rows
           /\ held' = u.held
           /\ last' = [op |-> "TransactionRepository.update", id |-> held.row.id,
                       ret |-> u.ret, entity |-> held.row]
    /\ UNCHANGED <<accounts, categories, budgets, sessions, dateVars, cfgVars>>

CategoryRepository_update(s) ==
    /\ s \in sessions
    /\ held.kind = "category"
    /\ LET u == CategoryRepository_update_result(s, held)
       IN  /\ categories' = u.rows
           /\ held' = u.held
           /\ last' = [op |-> "CategoryRepository.update", id |-> held.row.id,
                       ret |-> u.ret, entity |-> held.row]
    /\ UNCHANGED <<accounts, transactions, budgets, sessions, dateVars, cfgVars>>

\* TransactionForm.update_transaction: a session of its own, the form's
\* fields assigned to self.transaction, update(), and the session closed
TransactionForm_update_transaction(in) ==
    /\ held.kind = "transaction"
    /\ FreeSessions # {}
    /\ LET h == [held EXCEPT !.row = TransactionRow(held.row.id, in)]
           u == TransactionRepository_update_result(NewSession, h)
       IN  /\ transactions' = u.rows
           /\ held' = IF u.held.sess = NewSession
                      THEN [u.held EXCEPT !.sess = Detached] ELSE u.held
           /\ last' = [op |-> "TransactionRepository.update", id |-> h.row.id,
                       ret |-> u.ret, entity |-> h.row]
    /\ UNCHANGED <<accounts, categories, budgets, sessions, dateVars, cfgVars>>

\* CategoriesPage.save_category(data, category): a session of its own; with
\* a category, the data assigned to it and update(); without, create(); and
\* the session closed
CategoriesPage_save_category(data) ==
    /\ FreeSessions # {}
    /\ IF held.kind = "category"
       THEN LET h == [held EXCEPT !.row = CategoryRow(held.row.id, data)]
                u == CategoryRepository_update_result(NewSession, h)
            IN  /\ categories' = u.rows
                /\ held' = IF u.held.sess = NewSession
                           THEN [u.held EXCEPT !.sess = Detached] ELSE u.held
                /\ last' = [op |-> "CategoryRepository.update", id |-> h.row.id,
                            ret |-> u.ret, entity |-> h.row]
       ELSE /\ NextId(categories) <= MaxCategoryId
            /\ categories' = categories \cup {CategoryRow(NextId(categories), data)}
            /\ last' = [op |-> "CategoryRepository.create", id |-> NextId(categories),
                        ret |-> "returned", in |-> data]
            /\ UNCHANGED held
    /\ UNCHANGED <<accounts, transactions, budgets, sessions, dateVars, cfgVars>>

InitOrm ==
    /\ accounts = {AccountRow(1, in) : in \in AccountInputs}
    /\ categories = {} /\ transactions = {} /\ budgets = {}
    /\ sessions = {} /\ held = NoEntity /\ last = NoCall
    /\ NoApplication
    /\ arg = <<>> /\ res = NoRes

NextOrm ==
    \/ get_session_sync
    \/ \E s \in 1..MaxSessions : session_close(s)
    \/ \E in \in TransactionInputs : TransactionRepository_create(in)
    \/ \E s \in 1..MaxSessions, id \in 1..MaxTxId : Load_transaction(s, id)
    \/ \E s \in 1..MaxSessions, id \in 1..MaxCategoryId : Load_category(s, id)
    \/ \E in \in TransactionInputs : Mutate_transaction(in)
    \/ \E in \in CategoryInputs : Mutate_category(in)
    \/ \E s \in 1..MaxSessions : TransactionRepository_update(s)
    \/ \E s \in 1..MaxSessions : CategoryRepository_update(s)
    \/ \E in \in TransactionInputs : TransactionForm_update_transaction(in)
    \/ \E data \in CategoryInputs : CategoriesPage_save_category(data)

SpecOrm == InitOrm /\ [][NextOrm]_vars

-----------------------------------------------------------------------------
(* data/repo.py: the queries.  A query is a function of the store; a query   *)
(* with ORDER BY yields one of the orderings SQL allows (rows with equal     *)
(* keys come in any order), so it is the set of the sequences it can return. *)

\* the sequences that list every element of S once, in ascending key order
Ordered(S, key) ==
    {f \in [1..Cardinality(S) -> S] :
        /\ \A i, j \in 1..Cardinality(S) : i # j => f[i] # f[j]
        /\ \A i, j \in 1..Cardinality(S) : i < j => key[f[i]] <= key[f[j]]}

\* ORDER BY desc(Transaction.date)
DateDescKey(t) == 0 - t.date

\* the collation order of the category names in use
NameOrder == <<"Food", "Rent", "Salary">>

\* ORDER BY Category.name
NameKey(c) == CHOOSE i \in 1..Len(NameOrder) : NameOrder[i] = c.name

\* get_by_date_range with Transaction.date < end_date
TransactionRepository_get_by_date_range_exclusive(start_date, end_date) ==
    LET rows == {TransactionEntity(t) :
                    t \in {r \in transactions : r.date >= start_date /\ r.date < end_date}}
    IN  Ordered(rows, [t \in rows |-> DateDescKey(t)])

TransactionRepository_get_by_date_range(start_date, end_date) ==
    LET rows == {TransactionEntity(t) :
                    t \in {r \in transactions : r.date >= start_date /\ r.date <= end_date}}
    IN  Ordered(rows, [t \in rows |-> DateDescKey(t)])

CategoryRepository_get_by_type(category_type) ==
    LET rows == {c \in categories : c.type = category_type}
    IN  Ordered(rows, [c \in rows |-> NameKey(c)])

RECURSIVE SumAmount(_)
SumAmount(S) ==
    IF S = {} THEN 0
    ELSE LET t == CHOOSE x \in S : TRUE IN t.amount + SumAmount(S \ {t})

NoDate == -1       \* Python None for an optional datetime

\* func.sum(Transaction.amount).scalar() or Decimal("0"): SUM over no rows is
\* NULL; the sum comes back through the Numeric(15, 2) result conversion
ScalarSumOrZero(rows) == IF rows = {} THEN 0 ELSE Numeric2(SumAmount(rows))

\* get_totals_by_type that applies end_date as Transaction.date < end_date
TransactionRepository_get_totals_by_type_exclusive(start_date, end_date) ==
    LET query == {t \in transactions :
                    /\ (start_date # NoDate => t.date >= start_date)
                    /\ (end_date # NoDate => t.date < end_date)}
        income == ScalarSumOrZero({t \in query : t.type = "income"})
        expense == ScalarSumOrZero({t \in query : t.type = "expense"})
    IN  <<income, expense>>

TransactionRepository_get_totals_by_type(start_date, end_date) ==
    LET query == {t \in transactions :
                    /\ (start_date # NoDate => t.date >= start_date)
                    /\ (end_date # NoDate => t.date <= end_date)}
        income == ScalarSumOrZero({t \in query : t.type = "income"})
        expense == ScalarSumOrZero({t \in query : t.type = "expense"})
    IN  <<income, expense>>

-----------------------------------------------------------------------------
(* app/charts: the monthly aggregates *)

\* the elements of a sequence, as a set (the rows of a query result are distinct)
Range(f) == {f[i] : i \in DOMAIN f}

\* category_data[name] = total
DictPut(d, k, v) == [x \in (DOMAIN d) \cup {k} |-> IF x = k THEN v ELSE d[x]]

EmptyDict == [x \in {} |-> 0]

\* the loop of get_category_data with "if total_amount >= 0"
RECURSIVE CategoryLoop_keep_zero(_, _, _, _, _)
CategoryLoop_keep_zero(expense_categories, i, start_date, end_date, category_data) ==
    IF i > Len(expense_categories) THEN category_data
    ELSE LET category == expense_categories[i]
             transactions_ == CHOOSE q \in
                 TransactionRepository_get_by_date_range(start_date, end_date) : TRUE
             category_transactions ==
                 {t \in Range(transactions_) :
                     t.category_id = category.id /\ t.type = "expense"}
             total_amount == SumAmount(category_transactions)
         IN  CategoryLoop_keep_zero(expense_categories, i + 1, start_date, end_date,
                 IF total_amount >= 0
                 THEN DictPut(category_data, category.name, total_amount)
                 ELSE category_data)

\* the loop of get_category_data over expense_categories[i..], filling category_data
RECURSIVE CategoryLoop(_, _, _, _, _)
CategoryLoop(expense_categories, i, start_date, end_date, category_data) ==
    IF i > Len(expense_categories) THEN category_data
    ELSE LET category == expense_categories[i]
             transactions_ == CHOOSE q \in
                 TransactionRepository_get_by_date_range(start_date, end_date) : TRUE
             category_transactions ==
                 {t \in Range(transactions_) :
                     t.category_id = category.id /\ t.type = "expense"}
             total_amount == SumAmount(category_transactions)
         IN  CategoryLoop(expense_categories, i + 1, start_date, end_date,
                 IF total_amount > 0
                 THEN DictPut(category_data, category.name, total_amount)
                 ELSE category_data)

\* CategoryBarChart.get_category_data(month): the dicts it can return (one
\* for each order in which get_by_type may list categories of equal name)
CategoryBarChart_get_category_data(month) ==
    LET p == ParseMonth(month)
        start_date == DateTime(p.year, p.month_num, 1)
        end_date == IF p.month_num = 12
                    THEN DateTime(p.year + 1, 1, 1) - TimeDelta(1)
                    ELSE DateTime(p.year, p.month_num + 1, 1) - TimeDelta(1)
    IN  {CategoryLoop(expense_categories, 1, start_date, end_date, EmptyDict) :
            expense_categories \in CategoryRepository_get_by_type("expense")}

\* category_totals(month, type) of the specification: get_category_data takes
\* the month alone and always asks for the "expense" categories
category_totals(month, category_type) == CategoryBarChart_get_category_data(month)

\* the while loop of get_daily_data from current_date on; a date is an ordinal
RECURSIVE DailyLoop(_, _, _)
DailyLoop(current_date, end_day, in_range) ==
    IF ~(current_date <= end_day) THEN <<>>
    ELSE LET day_transactions == {t \in in_range : DateOf(t.date) = current_date}
             daily_income == SumAmount({t \in day_transactions : t.type = "income"})
             daily_expense == SumAmount({t \in day_transactions : t.type = "expense"})
             daily_net == IF day_transactions # {} THEN daily_income - daily_expense ELSE 0
         IN  <<[date |-> Combine(current_date), net |-> daily_net]>>
                \o DailyLoop(current_date + 1, end_day, in_range)

\* get_daily_data whose loop runs while current_date < end_date.date()
MonthlyTrendChart_get_daily_data_short(month) ==
    LET p == ParseMonth(month)
        start_date == DateTime(p.year, p.month_num, 1)
        end_date == IF p.month_num = 12
                    THEN DateTime(p.year + 1, 1, 1) - TimeDelta(1)
                    ELSE DateTime(p.year, p.month_num + 1, 1) - TimeDelta(1)
        transactions_ == CHOOSE q \in
            TransactionRepository_get_by_date_range(start_date, end_date) : TRUE
    IN  DailyLoop(DateOf(start_date), DateOf(end_date) - 1, Range(transactions_))

\* MonthlyTrendChart.get_daily_data(month): the dict's items in insertion order
MonthlyTrendChart_get_daily_data(month) ==
    LET p == ParseMonth(month)
        start_date == DateTime(p.year, p.month_num, 1)
        end_date == IF p.month_num = 12
                    THEN DateTime(p.year + 1, 1, 1) - TimeDelta(1)
                    ELSE DateTime(p.year, p.month_num + 1, 1) - TimeDelta(1)
        transactions_ == CHOOSE q \in
            TransactionRepository_get_by_date_range(start_date, end_date) : TRUE
    IN  DailyLoop(DateOf(start_date), DateOf(end_date), Range(transactions_))

-----------------------------------------------------------------------------
(* The store the aggregates are evaluated on: transactions as the            *)
(* transaction form saves them (dates at midnight, any positive amount) for  *)
(* the categories of a few category tables.                                  *)

Mar01 == DateTime(2024, 3, 1)
Apr01 == DateTime(2024, 4, 1)

AggDates == {Mar01, Mar15, Mar31, Apr01}

AggInput(c, d, type, amount) ==
    [account_id |-> 1, category_id |-> c, date |-> d, amount |-> amount,
     type |-> type, note |-> None]

AggTransactionInputs ==
    {AggInput(1, Mar15, "expense", 42500), AggInput(1, Mar01, "expense", 42500),
     AggInput(1, Mar31, "expense", 4),     AggInput(1, Mar01, "income", 1004),
     AggInput(2, Mar31, "expense", 42500), AggInput(2, Mar31, "income", 1004),
     AggInput(2, Apr01, "expense", 42500), AggInput(2, Apr01, "income", 1004),
     AggInput(2, Mar31, "expense", 1004)}

Food == [name |-> "Food", type |-> "expense", color_hex |-> "#e74c3c", parent_id |-> NoId]
Rent == [name |-> "Rent", type |-> "expense", color_hex |-> "#34495e", parent_id |-> NoId]
Salary == [name |-> "Salary", type |-> "income", color_hex |-> "#27ae60", parent_id |-> NoId]

AggCategoryTables ==
    {{CategoryRow(1, Food), CategoryRow(2, Salary)},
     {CategoryRow(1, Food), CategoryRow(2, Food)},
     {CategoryRow(1, Food), CategoryRow(2, Rent)},
     {CategoryRow(1, Food)}}

\* the months the aggregates are asked for
AggMonths == {FormatMonth(2024, 3), FormatMonth(2024, 4)}

\* the instants the date-range queries are asked for
Instants == {DateTime(2024, 2, 29), Mar01, Mar31, Mar31 + 1, Apr01}

InitAgg ==
    /\ accounts = {AccountRow(1, in) : in \in AccountInputs}
    /\ categories \in AggCategoryTables
    /\ transactions = {} /\ budgets = {}
    /\ sessions = {} /\ held = NoEntity /\ last = NoCall
    /\ NoApplication
    /\ arg = <<>> /\ res = NoRes

NextAgg ==
    \/ \E in \in AggTransactionInputs : TransactionRepository_create(in)
    \/ \E id \in 1..MaxTxId : TransactionRepository_delete(id)

SpecAgg == InitAgg /\ [][NextAgg]_vars

-----------------------------------------------------------------------------
(* Claims about the repositories *)

DeleteOps == {"AccountRepository.delete", "CategoryRepository.delete",
              "TransactionRepository.delete", "BudgetRepository.delete"}

\* the ids stored, before and after the step, in the table a repository works on
IdsOf(op) ==
    CASE op \in {"AccountRepository.delete"} -> Ids(accounts)
      [] op \in {"CategoryRepository.delete"} -> Ids(categories)
      [] op \in {"TransactionRepository.delete"} -> Ids(transactions)
      [] op \in {"BudgetRepository.delete"} -> Ids(budgets)

IdsOfNext(op) ==
    CASE op \in {"AccountRepository.delete"} -> Ids(accounts')
      [] op \in {"CategoryRepository.delete"} -> Ids(categories')
      [] op \in {"TransactionRepository.delete"} -> Ids(transactions')
      [] op \in {"BudgetRepository.delete"} -> Ids(budgets')

Abs(x) == IF x < 0 THEN -x ELSE x

(* C1 as stated: for an entity obtained from a repository, also through a   *)
(* session that has since been closed, update(entity) after the caller has  *)
(* mutated its fields returns without error, and get_by_id(entity.id) then  *)
(* returns the mutated field values.                                        *)
C1_UpdatePersists ==
    /\ last.op = "TransactionRepository.update" =>
           /\ last.ret = "returned"
           /\ TransactionRepository_get_by_id(last.id) = {TransactionEntity(last.entity)}
    /\ last.op = "CategoryRepository.update" =>
           /\ last.ret = "returned"
           /\ CategoryRepository_get_by_id(last.id) = {last.entity}

(* C2: a transaction created with TransactionRepository.create is returned  *)
(* by get_by_id(returned id) with the same account_id, category_id, date,   *)
(* amount (to 2 decimal places), type and note, and its id is the id of no  *)
(* other stored transaction.                                                *)
C2_CreateRoundTrip ==
    last.op = "TransactionRepository.create" =>
        /\ Cardinality({t \in transactions : t.id = last.id}) = 1
        /\ \E t \in TransactionRepository_get_by_id(last.id) :
            /\ TransactionRepository_get_by_id(last.id) = {t}
            /\ t.account_id = last.in.account_id
            /\ t.category_id = last.in.category_id
            /\ DateOf(t.date) = DateOf(last.in.date)
            /\ t.amount % 10 = 0 /\ Abs(t.amount - last.in.amount) <= 5
            /\ t.type = last.in.type
            /\ t.note = last.in.note

\* a second transaction, with an amount of more than 2 places and no note,
\* has just been created
C2_Witness ==
    /\ last.op = "TransactionRepository.create"
    /\ Cardinality(transactions) = 2
    /\ last.in.amount = 1004 /\ last.in.note = None

(* C3: in every repository, delete(id) with an id that matches no stored    *)
(* row returns false, raises nothing and leaves every row of every table    *)
(* unchanged.                                                               *)
C3_DeleteMissing ==
    [][(last'.op \in DeleteOps /\ last'.id \notin IdsOf(last'.op))
          => (last'.ret = "False" /\ UNCHANGED storeVars)]_vars

\* a delete of an id that is not stored has returned while rows are stored
C3_Witness ==
    /\ last.op \in DeleteOps
    /\ last.ret = "False"
    /\ transactions # {} /\ categories # {}

(* C4 as stated: in every repository, delete(id) of a stored row, whether   *)
(* or not other rows reference it, returns true and the row is gone         *)
(* afterwards.                                                              *)
C4_DeleteStored ==
    [][(last'.op \in DeleteOps /\ last'.id \in IdsOf(last'.op))
          => (last'.ret = "True" /\ last'.id \notin IdsOfNext(last'.op))]_vars

(* C5: deleting an Account or a Category through its repository removes or  *)
(* modifies no Transaction and no Budget row.                               *)
C5_NoCascade ==
    [][last'.op \in {"AccountRepository.delete", "CategoryRepository.delete"}
          => UNCHANGED <<transactions, budgets>>]_vars

\* delete has been called on a category that a transaction and a budget
\* reference, and both are still stored
C5_Witness ==
    /\ last.op = "CategoryRepository.delete"
    /\ \E t \in transactions : t.category_id = last.id
    /\ \E b \in budgets : b.category_id = last.id

-----------------------------------------------------------------------------
(* Claims about the queries and the monthly aggregates *)

\* the amount of a stored transaction as the repository returns it
AmountOf ==
    [id \in Ids(transactions) |->
        (CHOOSE e \in TransactionRepository_get_by_id(id) : TRUE).amount]

\* the sum of f[id] over the ids 1..n that are in S
RECURSIVE SumOver(_, _, _)
SumOver(S, n, f) ==
    IF n = 0 THEN 0
    ELSE SumOver(S, n - 1, f) + (IF n \in S THEN f[n] ELSE 0)

MaxStoredId == IF transactions = {} THEN 0 ELSE Max(Ids(transactions))

\* the stored amount (as written to the column) of transaction id
StoredAmountOf ==
    [id \in Ids(transactions) |-> (CHOOSE t \in transactions : t.id = id).amount]

\* the calendar month of a stored transaction is year y, month m
InMonth(t, y, m) ==
    LET d == Ord2Ymd(DateOf(t.date)) IN d.year = y /\ d.month = m

MonthsYm == {<<2024, 3>>, <<2024, 4>>}

(* C6: get_by_date_range(start, end) returns exactly the stored             *)
(* transactions with start <= date <= end, both bounds inclusive, each      *)
(* once, in non-increasing date order.                                      *)
C6_DateRange ==
    \A start \in Instants, end \in Instants :
        /\ TransactionRepository_get_by_date_range(start, end) # {}
        /\ \A r \in TransactionRepository_get_by_date_range(start, end) :
            /\ \A t \in transactions :
                   (\E i \in 1..Len(r) : r[i].id = t.id)
                       <=> (start <= t.date /\ t.date <= end)
            /\ \A i \in 1..Len(r) : r[i] \in TransactionRepository_get_by_id(r[i].id)
            /\ \A i, j \in 1..Len(r) : i # j => r[i].id # r[j].id
            /\ \A i \in 1..(Len(r) - 1) : r[i].date >= r[i + 1].date

\* one transaction dated exactly at start and one exactly at end are both
\* returned, later date first, and the later one is left out of a range
\* that ends before it
C6_Witness ==
    /\ \E r \in TransactionRepository_get_by_date_range(Mar01, Apr01) :
           Len(r) = 2 /\ r[1].date = Apr01 /\ r[2].date = Mar01
    /\ \E r \in TransactionRepository_get_by_date_range(Mar01, Mar31 + 1) :
           Len(r) = 1 /\ r[1].date = Mar01

CategoryTotal(c, ym, type) ==
    SumOver({t.id : t \in {x \in transactions :
                /\ x.category_id = c.id /\ x.type = type /\ InMonth(x, ym[1], ym[2])}},
            MaxStoredId, AmountOf)

DayNet(day) ==
    SumOver({t.id : t \in {x \in transactions : DateOf(x.date) = day /\ x.type = "income"}},
            MaxStoredId, AmountOf)
    - SumOver({t.id : t \in {x \in transactions : DateOf(x.date) = day /\ x.type = "expense"}},
              MaxStoredId, AmountOf)

-----------------------------------------------------------------------------
(* C8: for every valid month token M, month_to_range(M) starts on day 1 of *)
(* M at midnight and ends on the last calendar day of M: 31 December of    *)
(* the same year for December, 28 or 29 February by leap year; start <=    *)
(* end and both lie in M.                                                  *)

IsMonthRange(r) == r.fn \in {"get_month_date_range", "DashboardPage.get_month_date_range"}

C8_MonthRange ==
    IsMonthRange(res) =>
        \A y \in Years, m \in 1..12 :
            arg = FormatMonth(y, m) =>
                LET s == Ord2Ymd(DateOf(res.a))
                    e == Ord2Ymd(DateOf(res.b))
                    n == Ord2Ymd(DateOf(res.b) + 1)
                IN  /\ res.a % TicksPerDay = 0
                    /\ s = [year |-> y, month |-> m, day |-> 1]
                    /\ e.year = y /\ e.month = m
                    /\ <<n.year, n.month>> # <<y, m>>
                    /\ res.a <= res.b
                    /\ (m = 12 => e.day = 31)
                    /\ (m = 2 => e.day = IF y \in {2000, 2024} THEN 29 ELSE 28)

\* the range of a December has been computed
C8_WitnessDecember ==
    /\ IsMonthRange(res)
    /\ arg = <<"2", "0", "2", "3", "-", "1", "2">>
    /\ Ord2Ymd(DateOf(res.b)) = [year |-> 2023, month |-> 12, day |-> 31]

-----------------------------------------------------------------------------
(* app/charts/category_bar.py: CategoryBarChart.update_data, the bars drawn  *)
(* from the dictionary get_category_data returns.  The dictionary is the     *)
(* sequence of its items in insertion order, an item a record of the         *)
(* category name and its total.                                              *)

MaxEntries == 10    \* entries of the dictionary handed to update_data

MaxBars == 8        \* len(sorted_data) > 8
TopCount == 7       \* sorted_data[:7]

\* expense category names in the order get_by_type yields them
ChartNames == <<"Bills", "Dining", "Education", "Food", "Health", "Other",
                "Rent", "Shopping", "Transport", "Travel", "Utilities", "Water">>

\* the total of the i-th name under one of three patterns: ascending with the
\* name order, all equal, and distinct in no order
ChartAmount(pattern, i) ==
    CASE pattern = 1 -> 10 * i
      [] pattern = 2 -> 42500
      [] pattern = 3 -> 10 * (((i * 7) % 13) + 1)

\* the items of the indices in S, ascending by index, from index i on
RECURSIVE ItemsFrom(_, _, _)
ItemsFrom(S, pattern, i) ==
    IF i > Len(ChartNames) THEN <<>>
    ELSE (IF i \in S
          THEN <<[name |-> ChartNames[i], amount |-> ChartAmount(pattern, i)]>>
          ELSE <<>>) \o ItemsFrom(S, pattern, i + 1)

CategoryDataInputs ==
    {ItemsFrom(S, pattern, 1) : S \in SUBSET (1..MaxEntries), pattern \in 1..3}

\* x placed behind every item of the sorted sequence whose amount is not lower
InsertDesc(sorted, x) ==
    LET k == Cardinality({i \in 1..Len(sorted) : sorted[i].amount >= x.amount})
    IN  SubSeq(sorted, 1, k) \o <<x>> \o SubSeq(sorted, k + 1, Len(sorted))

\* sorted(items, key=lambda x: x[1], reverse=True): stable, descending
RECURSIVE SortedDesc(_)
SortedDesc(items) ==
    IF items = <<>> THEN <<>>
    ELSE InsertDesc(SortedDesc(SubSeq(items, 1, Len(items) - 1)), items[Len(items)])

\* sum(amount for _, amount in items)
RECURSIVE SumItems(_)
SumItems(items) ==
    IF items = <<>> THEN 0 ELSE items[1].amount + SumItems(Tail(items))

\* update_data keeping the first 8 items and no "Other"
CategoryBarChart_update_data_first8(category_data) ==
    LET sorted_data == SortedDesc(category_data)
    IN  IF Len(sorted_data) > MaxBars THEN SubSeq(sorted_data, 1, MaxBars)
        ELSE sorted_data

\* CategoryBarChart.update_data: the (name, amount) pairs the bars are drawn from
CategoryBarChart_update_data(category_data) ==
    LET sorted_data == SortedDesc(category_data)
    IN  IF Len(sorted_data) > MaxBars
        THEN LET top_categories == SubSeq(sorted_data, 1, TopCount)
                 other_amount ==
                     SumItems(SubSeq(sorted_data, TopCount + 1, Len(sorted_data)))
             IN  IF other_amount > 0
                 THEN Append(top_categories, [name |-> "Other", amount |-> other_amount])
                 ELSE top_categories
        ELSE sorted_data

Call_update_data ==
    /\ res = NoRes
    /\ res' = [fn |-> "CategoryBarChart.update_data",
               a |-> CategoryBarChart_update_data(arg), b |-> 0]
    /\ UNCHANGED <<arg, storeVars, ormVars, cfgVars>>

InitChart ==
    /\ arg \in CategoryDataInputs
    /\ res = NoRes
    /\ accounts = {} /\ categories = {} /\ transactions = {} /\ budgets = {}
    /\ sessions = {} /\ held = NoEntity /\ last = NoCall
    /\ NoApplication

NextChart == Call_update_data

SpecChart == InitChart /\ [][NextChart]_vars

\* the names of a sequence of items
NamesOf(items) == {items[i].name : i \in 1..Len(items)}

\* bars[1..n] are n different items of the input, in non-increasing amount
IsDescendingSelection(bars, n, input) ==
    /\ \A i \in 1..n : \E j \in 1..Len(input) : input[j] = bars[i]
    /\ \A i, j \in 1..n : i # j => bars[i].name # bars[j].name
    /\ \A i \in 1..(n - 1) : bars[i].amount >= bars[i + 1].amount

(* C11: with more than 8 entries the chart data is the 7 entries with the   *)
(* largest amounts in descending order followed by one "Other" entry with   *)
(* the sum of the remaining entries (added only if that sum is positive);   *)
(* the amounts shown sum to the total of the input and there are at most 8  *)
(* bars; with 8 or fewer entries all entries are shown, sorted by amount    *)
(* descending.                                                              *)
C11_TopSevenAndOther ==
    res.fn = "CategoryBarChart.update_data" =>
        LET bars == res.a
            rest == {j \in 1..Len(arg) :
                        \A i \in 1..TopCount : bars[i].name # arg[j].name}
            rest_sum == SumItems(arg) - SumItems(SubSeq(bars, 1, TopCount))
        IN  /\ Len(bars) <= 8
            /\ SumItems(bars) = SumItems(arg)
            /\ IF Len(arg) > 8
               THEN /\ IsDescendingSelection(bars, 7, arg)
                    /\ \A j \in rest : arg[j].amount <= bars[7].amount
                    /\ IF rest_sum > 0
                       THEN /\ Len(bars) = 8
                            /\ bars[8] = [name |-> "Other", amount |-> rest_sum]
                       ELSE Len(bars) = 7
               ELSE /\ Len(bars) = Len(arg)
                    /\ IsDescendingSelection(bars, Len(arg), arg)

\* ten entries, the category named Other among the seven largest: eight bars,
\* the last one the synthetic Other with the sum of the three smallest
C11_Witness ==
    /\ res.fn = "CategoryBarChart.update_data"
    /\ Len(arg) = 10
    /\ Len(res.a) = 8
    /\ \E i \in 1..7 : res.a[i].name = "Other"
    /\ res.a[8] = [name |-> "Other", amount |-> 10 + 20 + 30]

-----------------------------------------------------------------------------
(* utils/validators.py.  A string is the sequence of its characters; the     *)
(* characters outside ASCII are written by name.                             *)

Euro == "euro"
Pound == "pound"
Newline == "\n"

\* the characters str.strip() and int() drop at both ends
Whitespace == {" ", Newline}

IsDigit(c) == \E i \in 1..10 : Digits[i] = c

\* s.lstrip()
RECURSIVE LStrip(_)
LStrip(s) == IF s # <<>> /\ s[1] \in Whitespace THEN LStrip(Tail(s)) ELSE s

\* s.rstrip()
RECURSIVE RStrip(_)
RStrip(s) ==
    IF s # <<>> /\ s[Len(s)] \in Whitespace THEN RStrip(SubSeq(s, 1, Len(s) - 1)) ELSE s

\* s.strip()
Strip(s) == LStrip(RStrip(s))

\* s.replace(c, "")
Remove(s, c) == SelectSeq(s, LAMBDA x : x # c)

InvalidOperation == [kind |-> "InvalidOperation"]

\* Decimal(s) for a string without exponent, underscores and NaN payload: a
\* finite value is num * 10^(-scale)
Decimal(s) ==
    LET t == Strip(s)
        signed == t # <<>> /\ t[1] \in {"+", "-"}
        sign == IF signed /\ t[1] = "-" THEN 0 - 1 ELSE 1
        u == IF signed THEN Tail(t) ELSE t
        dots == {i \in 1..Len(u) : u[i] = "."}
        digits == Remove(u, ".")
    IN  IF u \in {<<"I", "n", "f", "i", "n", "i", "t", "y">>, <<"I", "n", "f">>,
                  <<"i", "n", "f">>, <<"i", "n", "f", "i", "n", "i", "t", "y">>}
        THEN [kind |-> "Infinity", sign |-> sign]
        ELSE IF u \in {<<"N", "a", "N">>, <<"n", "a", "n">>}
        THEN [kind |-> "NaN", sign |-> sign]
        ELSE IF /\ digits # <<>>
                /\ \A i \in 1..Len(digits) : IsDigit(digits[i])
                /\ Cardinality(dots) <= 1
        THEN [kind |-> "finite", num |-> sign * ToInt(digits),
              scale |-> IF dots = {} THEN 0 ELSE Len(u) - (CHOOSE i \in dots : TRUE)]
        ELSE InvalidOperation

\* the parsed_amount of a failed validation
NoDecimal == [kind |-> "None"]

\* comparing the Decimal with a number signals InvalidOperation
ComparisonSignals(amount) == amount.kind = "NaN"

\* amount <= 0 for a Decimal that can be compared
DecimalLeZero(amount) ==
    CASE amount.kind = "finite" -> amount.num <= 0
      [] amount.kind = "Infinity" -> amount.sign < 0

\* validate_amount(amount_str) -> (is_valid, parsed_amount, error_message)
validate_amount(amount_str) ==
    IF amount_str = <<>> \/ Strip(amount_str) = <<>>
    THEN <<FALSE, NoDecimal, "Amount cannot be empty">>
    ELSE LET cleaned == Strip(Remove(Remove(Remove(Remove(amount_str, "$"), Euro),
                                            Pound), ","))
             amount == Decimal(cleaned)
         IN  IF amount = InvalidOperation
             THEN <<FALSE, NoDecimal, "Invalid amount format">>
             ELSE IF ComparisonSignals(amount)
             THEN <<FALSE, NoDecimal, "Invalid amount format">>
             ELSE IF DecimalLeZero(amount)
             THEN <<FALSE, NoDecimal, "Amount must be greater than zero">>
             ELSE <<TRUE, amount, None>>

\* re.match(r'^\d{4}-\d{2}$', month): $ also matches before a final newline
MatchesMonthPattern(month) ==
    LET m == IF Len(month) = 8 /\ month[8] = Newline THEN SubSeq(month, 1, 7) ELSE month
    IN  /\ Len(m) = 7
        /\ \A i \in {1, 2, 3, 4, 6, 7} : IsDigit(m[i])
        /\ m[5] = "-"

\* int(s) for a string of digits with whitespace around it
IntOf(s) == ToInt(Strip(s))

\* validate_month_string(month) -> (is_valid, error_message)
validate_month_string(month) ==
    IF month = <<>> THEN <<FALSE, "Month cannot be empty">>
    ELSE IF ~MatchesMonthPattern(month)
    THEN <<FALSE, "Invalid month format. Use YYYY-MM">>
    ELSE LET parts == SplitDash(month)
             year == IntOf(parts[1])
             month_num == IntOf(parts[2])
         IN  IF ~(1 <= month_num /\ month_num <= 12)
             THEN <<FALSE, "Month must be between 01 and 12">>
             ELSE IF ~(1900 <= year /\ year <= 2100)
             THEN <<FALSE, "Year must be between 1900 and 2100">>
             ELSE <<TRUE, None>>

\* the month strings the validator is evaluated on
MonthStrings ==
    {<<>>} \cup
    {pre \o ToStr(y) \o sep \o Pad2(m) \o post :
        pre \in {<<>>, <<" ">>, <<"0">>},
        y \in {1899, 1900, 2024, 2100, 2101},
        sep \in {<<"-">>, <<"/">>},
        m \in {0, 1, 2, 12, 13},
        post \in {<<>>, <<" ">>, <<Newline>>, <<"-", "0", "1">>}}

\* the amount strings the validator is evaluated on
AmountBodies ==
    {<<>>, <<"0">>, <<"-", "5">>, <<"5">>, <<"+", "7">>, <<"4", "2", ".", "5", "0">>,
     <<"1", ",", "2", "3", "4", ".", "5", "0">>, <<"0", ".", "0", "0", "4">>,
     <<"0", ".", "0", "0">>, <<".", "5">>, <<"5", ".">>, <<".">>, <<"-">>,
     <<"1", ".", "2", ".", "3">>, <<"1", " ", "0", "0", "0">>, <<"a", "b", "c">>,
     <<"N", "a", "N">>, <<"I", "n", "f", "i", "n", "i", "t", "y">>,
     <<"-", "I", "n", "f", "i", "n", "i", "t", "y">>}

AmountStrings ==
    {pre \o body \o post :
        pre \in {<<>>, <<"$">>, <<Euro>>, <<Pound>>, <<" ", "$">>},
        body \in AmountBodies,
        post \in {<<>>, <<" ">>}}

Call_validate_amount ==
    /\ res' = [fn |-> "validate_amount", a |-> validate_amount(arg), b |-> 0]
    /\ UNCHANGED <<arg, storeVars, ormVars, cfgVars>>

Call_validate_month_string ==
    /\ res' = [fn |-> "validate_month_string", a |-> validate_month_string(arg), b |-> 0]
    /\ UNCHANGED <<arg, storeVars, ormVars, cfgVars>>

InitInput ==
    /\ arg \in MonthStrings \cup AmountStrings
    /\ res = NoRes
    /\ accounts = {} /\ categories = {} /\ transactions = {} /\ budgets = {}
    /\ sessions = {} /\ held = NoEntity /\ last = NoCall
    /\ NoApplication

NextInput == Call_validate_amount \/ Call_validate_month_string

SpecInput == InitInput /\ [][NextInput]_vars

\* s is written as an optional sign and decimal digits with at most one point
IsFiniteDecimalText(s) ==
    \E sg \in 0..1, pt \in 0..Len(s) :
        /\ sg = 1 => (Len(s) >= 1 /\ s[1] \in {"+", "-"})
        /\ pt # 0 => (pt > sg /\ s[pt] = ".")
        /\ \A i \in (sg + 1)..Len(s) : i # pt => IsDigit(s[i])
        /\ \E i \in (sg + 1)..Len(s) : i # pt

\* the characters of s that are not currency symbols or commas, stripped
CleanedAmountText(s) ==
    Strip(SelectSeq(s, LAMBDA c : c \notin {"$", Euro, Pound, ","}))

\* a finite decimal text is greater than zero: no minus sign, a digit other than 0
IsPositiveText(s) ==
    /\ IsFiniteDecimalText(s)
    /\ s[1] # "-"
    /\ \E i \in 1..Len(s) : IsDigit(s[i]) /\ s[i] # "0"

(* C16: validate_amount(s) succeeds exactly when s without $, euro and      *)
(* pound signs, commas and surrounding whitespace is a finite decimal       *)
(* number greater than zero, and then returns that number; every other      *)
(* input gets (False, None, message); it never raises.                      *)
C16_ValidateAmount ==
    res.fn = "validate_amount" =>
        LET cleaned == CleanedAmountText(arg)
        IN  /\ Len(res.a) = 3
            /\ res.a[1] = IsPositiveText(cleaned)
            /\ IF res.a[1]
               THEN /\ res.a[2].kind = "finite"
                    /\ res.a[2].num = ToInt(SelectSeq(cleaned, IsDigit))
                    /\ res.a[3] = None
               ELSE res.a[2] = NoDecimal /\ res.a[3] # None

(* C17: validate_month_string(m) succeeds exactly when m is 4 digits, a     *)
(* dash and 2 digits with nothing before or after, the month in 01..12 and  *)
(* the year in 1900..2100; every other string is rejected with a message.   *)
C17_ValidateMonthString ==
    res.fn = "validate_month_string" =>
        LET exact == /\ Len(arg) = 7
                     /\ \A i \in {1, 2, 3, 4, 6, 7} : IsDigit(arg[i])
                     /\ arg[5] = "-"
                     /\ ToInt(SubSeq(arg, 6, 7)) \in 1..12
                     /\ ToInt(SubSeq(arg, 1, 4)) \in 1900..2100
        IN  /\ res.a[1] = exact
            /\ IF res.a[1] THEN res.a[2] = None ELSE res.a[2] # None

-----------------------------------------------------------------------------
(* utils/config.py and the month navigation of app/ui/main_window.py.  The   *)
(* file is missing, unreadable, or holds a text: one that is no JSON, one    *)
(* that cannot be decoded, or a JSON value.  A JSON value and _config are a  *)
(* record of the Python type and, for a dict, its items.                     *)

MonthSpan == 3      \* months the window is moved away from the clock's month

\* datetime.now().strftime("%Y-%m")
ClockMonth == FormatMonth(2024, 1)

Dict(items) == [type |-> "dict", items |-> items]

\* the dicts a configuration file holds
ConfigDicts ==
    {Dict(EmptyDict)} \cup
    {Dict([k \in {"last_month"} |-> m]) : m \in {FormatMonth(2023, 11), FormatMonth(2024, 2)}} \cup
    {Dict([k \in {"theme"} |-> "dark"])} \cup
    {Dict([k \in {"last_month", "theme"} |->
              IF k = "theme" THEN "dark" ELSE FormatMonth(2024, 2)])}

JsonValues ==
    ConfigDicts \cup {[type |-> "list"], [type |-> "str"], [type |-> "int"],
                      [type |-> "NoneType"]}

Files ==
    {NoFile, [kind |-> "unreadable"],
     [kind |-> "text", text |-> "not json"],
     [kind |-> "text", text |-> "undecodable"]} \cup
    {[kind |-> "text", text |-> "json", value |-> v] : v \in JsonValues}

\* Config.load(): the new _config and the exception that leaves load, if any
Config_load(f, old) ==
    IF f.kind = "missing" THEN [config |-> Dict(EmptyDict), ret |-> "returned"]
    ELSE IF f.kind = "unreadable" \/ f.text = "not json"
    THEN [config |-> Dict(EmptyDict), ret |-> "returned"]
    ELSE IF f.text = "undecodable"
    THEN [config |-> old, ret |-> "UnicodeDecodeError"]
    ELSE [config |-> f.value, ret |-> "returned"]

\* Config.get(key, default): self._config.get(key, default)
Config_get(c, key, default) ==
    IF c.type # "dict" THEN [ret |-> "AttributeError"]
    ELSE [ret |-> "returned",
          value |-> IF key \in DOMAIN c.items THEN c.items[key] ELSE default]

Config_get_last_month(c) == Config_get(c, "last_month", None)

Config_get_theme(c) == Config_get(c, "theme", "light")

\* config = Config() at import of utils.config: _config = {} and load()
Config_init ==
    /\ config = NoConfig
    /\ LET r == Config_load(file, Dict(EmptyDict))
       IN  /\ config' = IF r.ret = "returned" THEN r.config ELSE NoConfig
           /\ last' = [op |-> "Config.__init__", file |-> file, ret |-> r.ret]
    /\ UNCHANGED <<storeVars, sessions, held, dateVars, seeded, widgets, file, current_month,
                   viewed>>

\* Config.set(key, value): the item is assigned and save() writes the file;
\* the write succeeds, fails at open, or fails after the file was truncated
Config_set(key, value) ==
    /\ config # NoConfig
    /\ IF config.type # "dict"
       THEN /\ last' = [op |-> "Config.set", key |-> key, value |-> value,
                        ret |-> "TypeError", saved |-> FALSE]
            /\ UNCHANGED <<config, file>>
       ELSE /\ config' = Dict(DictPut(config.items, key, value))
            /\ \E outcome \in {"written", "open failed", "write failed"} :
                /\ file' = CASE outcome = "written" ->
                                    [kind |-> "text", text |-> "json", value |-> config']
                             [] outcome = "open failed" -> file
                             [] outcome = "write failed" ->
                                    [kind |-> "text", text |-> "not json"]
                /\ last' = [op |-> "Config.set", key |-> key, value |-> value,
                            ret |-> "returned", saved |-> outcome = "written"]
    /\ UNCHANGED <<storeVars, sessions, held, dateVars, seeded, widgets, current_month, viewed>>

Config_set_last_month(month) == Config_set("last_month", month)

Config_set_theme(theme) == Config_set("theme", theme)

\* the pages' on_month_changed slots, run by month_changed.emit(month)
MonthChanged(w, month) ==
    [w EXCEPT !.dashboard_page.current_month = month,
              !.transactions_page.current_month = month]

\* MainWindow.__init__: current_month = config.get_last_month() or now;
\* setup_ui: the toolbar's update_month_display, the pages constructed with
\* their own current_month = datetime.now().strftime("%Y-%m")
MainWindow_init ==
    /\ config # NoConfig /\ current_month = <<>>
    /\ LET r == Config_get_last_month(config)
       IN  /\ current_month' =
                  IF r.ret # "returned" THEN current_month
                  ELSE IF r.value = None THEN ClockMonth ELSE r.value
           /\ widgets' =
                  IF r.ret # "returned" THEN widgets
                  ELSE [MonthChanged(widgets, ClockMonth) EXCEPT
                            !.month_label = current_month',
                            !.stacked_widget = "dashboard_page"]
           /\ last' = [op |-> "MainWindow.__init__", ret |-> r.ret]
    /\ UNCHANGED <<storeVars, sessions, held, dateVars, seeded, file, config, viewed>>

MonthIndex(month) == ParseMonth(month).year * 12 + ParseMonth(month).month_num

WindowOpen == current_month # <<>>

\* MainWindow.previous_month
MainWindow_previous_month ==
    /\ WindowOpen
    /\ MonthIndex(ClockMonth) - MonthIndex(current_month) < MonthSpan
    /\ LET current_date == ParseMonth(current_month)
       IN  current_month' =
               IF current_date.month_num = 1
               THEN FormatMonth(current_date.year - 1, 12)
               ELSE FormatMonth(current_date.year, current_date.month_num - 1)
    /\ widgets' = [MonthChanged(widgets, current_month') EXCEPT
                       !.month_label = current_month']
    /\ last' = [op |-> "MainWindow.previous_month", ret |-> "returned"]
    /\ UNCHANGED <<storeVars, sessions, held, dateVars, seeded, file, config, viewed>>

\* MainWindow.next_month
MainWindow_next_month ==
    /\ WindowOpen
    /\ MonthIndex(current_month) - MonthIndex(ClockMonth) < MonthSpan
    /\ LET current_date == ParseMonth(current_month)
       IN  current_month' =
               IF current_date.month_num = 12
               THEN FormatMonth(current_date.year + 1, 1)
               ELSE FormatMonth(current_date.year, current_date.month_num + 1)
    /\ widgets' = [MonthChanged(widgets, current_month') EXCEPT
                       !.month_label = current_month']
    /\ last' = [op |-> "MainWindow.next_month", ret |-> "returned"]
    /\ UNCHANGED <<storeVars, sessions, held, dateVars, seeded, file, config, viewed>>

\* the months populate_month_combo puts into the selector: the clock's month
\* and, eleven times, the month before it
ComboMonths ==
    LET now == ParseMonth(ClockMonth)
    IN  {ClockMonth,
         IF now.month_num = 1 THEN FormatMonth(now.year - 1, 12)
         ELSE FormatMonth(now.year, now.month_num - 1)}

\* MainWindow.on_month_changed for the selector entry of month_str
MainWindow_on_month_changed(month_str) ==
    /\ WindowOpen
    /\ current_month' = month_str
    /\ widgets' = IF month_str # current_month THEN MonthChanged(widgets, month_str)
                  ELSE widgets
    /\ last' = [op |-> "MainWindow.on_month_changed", ret |-> "returned"]
    /\ UNCHANGED <<storeVars, sessions, held, dateVars, seeded, file, config, viewed>>

\* the application ends: the Config object is gone, the file stays
Application_quit ==
    /\ config # NoConfig
    /\ config' = NoConfig
    /\ current_month' = <<>>
    /\ viewed' = current_month
    /\ widgets' = NoWidgets
    /\ last' = [op |-> "quit", ret |-> "returned"]
    /\ UNCHANGED <<storeVars, sessions, held, dateVars, seeded, file>>

InitConfig ==
    /\ file \in Files
    /\ config = NoConfig /\ current_month = <<>> /\ viewed = <<>> /\ seeded = FALSE
    /\ widgets = NoWidgets
    /\ accounts = {} /\ categories = {} /\ transactions = {} /\ budgets = {}
    /\ sessions = {} /\ held = NoEntity /\ last = NoCall
    /\ arg = <<>> /\ res = NoRes

NextConfig ==
    \/ Config_init
    \/ MainWindow_init
    \/ MainWindow_previous_month
    \/ MainWindow_next_month
    \/ \E month_str \in ComboMonths : MainWindow_on_month_changed(month_str)
    \/ \E month \in {FormatMonth(2024, 2)} : Config_set_last_month(month)
    \/ \E theme \in {"dark"} : Config_set_theme(theme)
    \/ Application_quit

SpecConfig == InitConfig /\ [][NextConfig]_vars

\* the file holds no JSON configuration object
IsMissingOrCorrupt(f) ==
    f.kind \in {"missing", "unreadable"}
        \/ (f.kind = "text" /\ (f.text # "json" \/ f.value.type # "dict"))

(* C14: Config.load on a missing, unreadable or corrupt file raises nothing *)
(* and leaves the configuration empty, so every get(key, default) returns   *)
(* default and get_theme() returns "light"; a failing save is a silent      *)
(* no-op that keeps the value in memory.                                    *)
C14_ConfigDegrades ==
    /\ (last.op = "Config.__init__" /\ IsMissingOrCorrupt(last.file)) =>
           /\ last.ret = "returned"
           /\ config = Dict(EmptyDict)
           /\ \A key \in {"last_month", "theme", "window_geometry"},
                 default \in {None, "light"} :
                  Config_get(config, key, default) = [ret |-> "returned", value |-> default]
           /\ Config_get_theme(config) = [ret |-> "returned", value |-> "light"]
    /\ (last.op = "Config.set" /\ config.type = "dict" /\ ~last.saved) =>
           /\ last.ret = "returned"
           /\ Config_get(config, last.key, None) = [ret |-> "returned", value |-> last.value]

(* C15: the last viewed month is written to the configuration whenever the  *)
(* viewed month changes, so after a restart get_last_month() is the month   *)
(* that was last viewed and the main window opens on it.                    *)
C15_LastMonthRestored ==
    [][(last'.op = "MainWindow.__init__" /\ viewed # <<>>) =>
           /\ last'.ret = "returned"
           /\ Config_get_last_month(config').ret = "returned"
           /\ viewed = Config_get_last_month(config').value
           /\ current_month' = viewed]_vars

-----------------------------------------------------------------------------
(* data/db.py: sessions of the presentation layer and the default data *)

MaxSeedings == 2    \* runs of init_database that may commit the default data

\* the session db_manager.get_session_sync() returns while ss are open
SessionLocal(ss) == IF ss = {} THEN 1 ELSE Max(ss) + 1

\* a body that opens no session of its own
NoSessions(ss) == [ss |-> ss, opened |-> 0]

\* a finally clause that leaves the session open
Finally_close_skipped(body, session) ==
    [ss |-> body.ss, opened |-> body.opened + 1]

\* try: <body> finally: session.close() -- on return and on exception alike
Finally_close(body, session) ==
    [ss |-> body.ss \ {session}, opened |-> body.opened + 1]

\* session = get_session_sync(); try: <a body without sessions> finally: close
SessionBlock(ss) ==
    LET session == SessionLocal(ss)
    IN  Finally_close(NoSessions(ss \cup {session}), session)

\* one session block after another
After(first, second) == [ss |-> second.ss, opened |-> first.opened + second.opened]

default_accounts ==
    <<[name |-> "Cash", type |-> "cash", currency |-> "USD"],
      [name |-> "Checking Account", type |-> "bank", currency |-> "USD"],
      [name |-> "Savings Account", type |-> "bank", currency |-> "USD"],
      [name |-> "Credit Card", type |-> "card", currency |-> "USD"]>>

Category(name, type, color_hex) ==
    [name |-> name, type |-> type, color_hex |-> color_hex, parent_id |-> NoId]

expense_categories ==
    <<Category("Food & Dining", "expense", "#e74c3c"),
      Category("Transportation", "expense", "#f39c12"),
      Category("Shopping", "expense", "#9b59b6"),
      Category("Entertainment", "expense", "#1abc9c"),
      Category("Bills & Utilities", "expense", "#34495e"),
      Category("Healthcare", "expense", "#e67e22"),
      Category("Education", "expense", "#3498db"),
      Category("Travel", "expense", "#2ecc71"),
      Category("Other", "expense", "#95a5a6")>>

income_categories ==
    <<Category("Salary", "income", "#27ae60"),
      Category("Freelance", "income", "#16a085"),
      Category("Investment", "income", "#2980b9"),
      Category("Gift", "income", "#8e44ad"),
      Category("Other", "income", "#7f8c8d")>>

\* session.add of each object in turn, the rows inserted in that order
AddAccounts(table, objects) ==
    table \cup {AccountRow(NextId(table) + i - 1, objects[i]) : i \in 1..Len(objects)}

AddCategories(table, objects) ==
    table \cup {CategoryRow(NextId(table) + i - 1, objects[i]) : i \in 1..Len(objects)}

\* init_database(): create_all keeps the tables that exist; then
\* _create_default_data(): a session, the early return when an account
\* exists, else the 4 + 9 + 5 objects added and one commit; on an exception
\* rollback and re-raise; the session closed in the finally clause
DatabaseManager_create_default_data(fails) ==
    /\ fails => accounts = {}
    /\ (accounts = {} /\ ~fails) =>
           NextId(categories) + Len(expense_categories \o income_categories)
               <= MaxSeedings * Len(expense_categories \o income_categories) + 1
    /\ IF accounts # {}
       THEN /\ last' = [op |-> "init_database", ret |-> "returned", seeds |-> FALSE,
                        opened |-> SessionBlock(sessions).opened]
            /\ UNCHANGED <<accounts, categories, seeded>>
       ELSE IF fails
       THEN /\ last' = [op |-> "init_database", ret |-> "OperationalError",
                        seeds |-> FALSE, opened |-> SessionBlock(sessions).opened]
            /\ UNCHANGED <<accounts, categories, seeded>>
       ELSE /\ accounts' = AddAccounts(accounts, default_accounts)
            /\ categories' =
                   AddCategories(categories, expense_categories \o income_categories)
            /\ seeded' = TRUE
            /\ last' = [op |-> "init_database", ret |-> "returned", seeds |-> TRUE,
                        opened |-> SessionBlock(sessions).opened]
    /\ sessions' = SessionBlock(sessions).ss
    /\ held' = NoEntity
    /\ UNCHANGED <<transactions, budgets, dateVars, file, config, current_month, viewed,
                   widgets>>

\* the rows a caller of the repositories removes or adds between two runs
SeedAccountIds == 1..Len(default_accounts)
SeedCategoryIds == {1, Len(expense_categories) + 1}

InitSeed ==
    /\ accounts = {} /\ categories = {} /\ transactions = {} /\ budgets = {}
    /\ sessions = {} /\ held = NoEntity /\ last = NoCall
    /\ NoApplication
    /\ arg = <<>> /\ res = NoRes

NextSeed ==
    \/ \E fails \in BOOLEAN : DatabaseManager_create_default_data(fails)
    \/ \E id \in SeedAccountIds : AccountRepository_delete(id)
    \/ \E id \in SeedCategoryIds : CategoryRepository_delete(id)
    \/ \E in \in TransactionInputs : TransactionRepository_create(in)
    \/ \E id \in 1..MaxTxId : TransactionRepository_delete(id)

SpecSeed == InitSeed /\ [][NextSeed]_vars

(* C13: init_database seeds the default data only on the first run: with no *)
(* accounts it inserts exactly 4 accounts, 9 expense and 5 income           *)
(* categories in one commit, and every later run adds no row and changes no *)
(* row, whatever was created or deleted in between.                         *)
C13_SeedOnce ==
    [][last'.op = "init_database" =>
          IF seeded
          THEN accounts' = accounts /\ categories' = categories
          ELSE \/ accounts' = accounts /\ categories' = categories
                    /\ last'.ret # "returned"
               \/ /\ Cardinality(accounts' \ accounts) = 4
                  /\ Cardinality({c \in categories' \ categories : c.type = "expense"}) = 9
                  /\ Cardinality({c \in categories' \ categories : c.type = "income"}) = 5
                  /\ accounts \subseteq accounts' /\ categories \subseteq categories'
                  /\ last'.ret = "returned"]_vars

-----------------------------------------------------------------------------
(* app/ui: the pages and the transaction form *)

MaxUserCategories == 1  \* categories added through the categories page
MaxUiTransactions == 1  \* transactions stored through the transaction form

\* n session blocks one after another
RECURSIVE Blocks(_, _)
Blocks(ss, n) ==
    IF n = 0 THEN NoSessions(ss)
    ELSE LET first == SessionBlock(ss) IN After(first, Blocks(first.ss, n - 1))

\* TransactionsPage.apply_filters: a session around get_by_date_range and
\* populate_table, which opens a session of its own for the lookups
TransactionsPage_apply_filters(ss) ==
    LET session == SessionLocal(ss)
    IN  Finally_close(SessionBlock(ss \cup {session}), session)

\* TransactionsPage.load_data: load_filter_options, then apply_filters
TransactionsPage_load_data(ss) ==
    LET options == SessionBlock(ss)
    IN  After(options, TransactionsPage_apply_filters(options.ss))

\* DashboardPage.load_data: update_kpi_cards, then the category chart's
\* get_category_data and the trend chart's get_daily_data
DashboardPage_load_data(ss) == Blocks(ss, 3)

\* CategoriesPage.load_data: populate_table
CategoriesPage_load_data(ss) == SessionBlock(ss)

\* transactions_page.data_changed: dashboard and categories page refresh
\* (the budgets page opens no session)
TransactionsPage_data_changed(ss) ==
    LET dashboard == DashboardPage_load_data(ss)
    IN  After(dashboard, CategoriesPage_load_data(dashboard.ss))

\* categories_page.data_changed: dashboard and transactions page refresh
CategoriesPage_data_changed(ss) ==
    LET dashboard == DashboardPage_load_data(ss)
    IN  After(dashboard, TransactionsPage_load_data(dashboard.ss))

\* the form was accepted: apply_filters() and data_changed.emit()
TransactionsPage_refreshed(ss) ==
    LET table == TransactionsPage_apply_filters(ss)
    IN  After(table, TransactionsPage_data_changed(table.ss))

\* populate_table() and data_changed.emit() of the categories page
CategoriesPage_refreshed(ss) ==
    LET table == CategoriesPage_load_data(ss)
    IN  After(table, CategoriesPage_data_changed(table.ss))

\* the objects the buttons of the tables are bound to: loaded in a session
\* that is closed when the table is shown
UiAccountIds == {1}
UiCategoryIds == SeedCategoryIds

TableObjects(transaction_rows, category_rows) ==
    {[kind |-> "transaction", row |-> TransactionEntity(t), sess |-> Detached] :
        t \in transaction_rows}
      \cup {[kind |-> "category", row |-> c, sess |-> Detached] :
               c \in {x \in category_rows : x.id \in UiCategoryIds}}

\* the object the user's next click on Edit or Delete passes to the handler
Clicked(transaction_rows, category_rows) ==
    IF TableObjects(transaction_rows, category_rows) = {} THEN {NoEntity}
    ELSE TableObjects(transaction_rows, category_rows)

\* amount texts typed into the form
AmountTexts ==
    {<<>>, <<"a", "b", "c">>, <<"0">>, <<"-", "5">>, <<"4", "2", ".", "5", "0">>,
     <<"0", ".", "0", "0", "4">>}

\* a finite Decimal of at most three places in thousandths
Mills(amount) == amount.num * 10 ^ (3 - amount.scale)

\* TransactionForm.validate_form: the warning shown, or "valid"
TransactionForm_validate_form(account_id, category_id, text) ==
    LET amount_text == Strip(text)
        amount == Decimal(amount_text)
    IN  IF account_id = NoId THEN "Please select an account."
        ELSE IF category_id = NoId THEN "Please select a category."
        ELSE IF amount_text = <<>> THEN "Please enter an amount."
        ELSE IF amount.kind = "InvalidOperation" \/ ComparisonSignals(amount)
        THEN "Please enter a valid amount."
        ELSE IF DecimalLeZero(amount) THEN "Amount must be greater than zero."
        ELSE "valid"

\* account_combo.currentData() after load_accounts
AccountChoices ==
    IF accounts = {} THEN {NoId} ELSE Ids(accounts) \cap UiAccountIds

\* category_combo after update_category_options(transaction_type)
CategoryOptions(transaction_type) ==
    IF {c \in categories : c.type = transaction_type} = {} THEN {NoId}
    ELSE {c.id : c \in {x \in categories : x.type = transaction_type}} \cap UiCategoryIds

\* type_combo.currentText() and category_combo.currentData() when OK is
\* pressed.  A new form lists every category (load_categories) under the
\* type "expense" until the type is changed; a form for a transaction lists
\* the categories of the type shown.
FormSelections(transaction) ==
    LET changed == {[type |-> t, category_id |-> c] :
                       t \in {"expense", "income"}, c \in UiCategoryIds \cup {NoId}}
        filtered == {s \in changed : s.category_id \in CategoryOptions(s.type)}
    IN  IF transaction = NoEntity
        THEN {[type |-> "expense", category_id |-> c] :
                 c \in IF categories = {} THEN {NoId} ELSE Ids(categories) \cap UiCategoryIds}
               \cup {s \in filtered : s.type = "income"}
        ELSE filtered

\* the update_category_options calls made before OK is pressed: one for
\* every change of the type, and in a form for a transaction one from
\* setCurrentText when that changes the type and one from load_data
FormUpdates(transaction, selection) ==
    IF transaction = NoEntity
    THEN IF selection.type = "expense" THEN 0 ELSE 1
    ELSE (IF transaction.row.type = "expense" THEN 1 ELSE 2)
           + (IF selection.type = transaction.row.type THEN 0 ELSE 1)

FormInput(account_id, selection, text) ==
    [account_id |-> account_id, category_id |-> selection.category_id, date |-> Mar15,
     amount |-> Mills(Decimal(Strip(text))), type |-> selection.type, note |-> None]

uiFrame ==
    <<accounts, budgets, dateVars, file, config, current_month, viewed, seeded, widgets>>

\* what a handler of the presentation layer did: its outcome, whether an
\* exception was caught in the handler, whether a message box was shown and
\* how many sessions it opened
UiCall(op, ret, caught, message, opened) ==
    [op |-> op, ret |-> ret, caught |-> caught, message |-> message, opened |-> opened]

\* BasePage.refresh_data of the transactions page
TransactionsPage_refresh_data ==
    /\ seeded
    /\ sessions' = TransactionsPage_load_data(sessions).ss
    /\ held' \in Clicked(transactions, {})
    /\ last' = UiCall("TransactionsPage.load_data", "returned", FALSE, FALSE,
                      TransactionsPage_load_data(sessions).opened)
    /\ UNCHANGED <<categories, transactions, uiFrame>>

\* BasePage.refresh_data of the categories page
CategoriesPage_refresh_data ==
    /\ seeded
    /\ sessions' = CategoriesPage_load_data(sessions).ss
    /\ held' \in Clicked({}, categories)
    /\ last' = UiCall("CategoriesPage.load_data", "returned", FALSE, FALSE,
                      CategoriesPage_load_data(sessions).opened)
    /\ UNCHANGED <<categories, transactions, uiFrame>>

\* BasePage.refresh_data of the dashboard
DashboardPage_refresh_data ==
    /\ seeded
    /\ sessions' = DashboardPage_load_data(sessions).ss
    /\ last' = UiCall("DashboardPage.load_data", "returned", FALSE, FALSE,
                      DashboardPage_load_data(sessions).opened)
    /\ UNCHANGED <<categories, transactions, held, uiFrame>>

\* TransactionsPage.add_transaction: TransactionForm(self) loads the combo
\* boxes; OK runs accept_form: validate_form, then create_transaction in a
\* session of its own, any exception caught and shown; an accepted form
\* refreshes the pages, a form that stays open is cancelled
TransactionsPage_add_transaction(account_id, selection, text, fails) ==
    /\ seeded
    /\ account_id \in AccountChoices
    /\ selection \in FormSelections(NoEntity)
    /\ LET verdict ==
               TransactionForm_validate_form(account_id, selection.category_id, text)
           form == Blocks(sessions, 2 + FormUpdates(NoEntity, selection))
           create == After(form, SessionBlock(form.ss))
           done == After(create, TransactionsPage_refreshed(create.ss))
       IN  IF verdict # "valid"
           THEN /\ ~fails
                /\ sessions' = form.ss
                /\ last' = UiCall("TransactionForm.accept_form", "rejected", FALSE, TRUE,
                                  form.opened)
                /\ UNCHANGED <<transactions, held>>
           ELSE IF fails
           THEN /\ sessions' = create.ss
                /\ last' = UiCall("TransactionForm.accept_form", "OperationalError", TRUE,
                                  TRUE, create.opened)
                /\ UNCHANGED <<transactions, held>>
           ELSE /\ NextId(transactions) <= MaxUiTransactions
                /\ transactions' = transactions \cup
                       {TransactionRow(NextId(transactions),
                                       FormInput(account_id, selection, text))}
                /\ sessions' = done.ss
                /\ held' \in Clicked(transactions', {})
                /\ last' = UiCall("TransactionForm.accept_form", "returned", FALSE, FALSE,
                                  done.opened)
    /\ UNCHANGED <<categories, uiFrame>>

\* TransactionsPage.edit_transaction(transaction): TransactionForm(self,
\* transaction); OK runs accept_form: validate_form, then update_transaction
\* assigns the fields of self.transaction and calls update() in a session of
\* its own, any exception caught and shown
TransactionsPage_edit_transaction(account_id, selection, text) ==
    /\ seeded
    /\ held.kind = "transaction"
    /\ account_id \in AccountChoices
    /\ selection \in FormSelections(held)
    /\ LET verdict ==
               TransactionForm_validate_form(account_id, selection.category_id, text)
           form == Blocks(sessions, 2 + FormUpdates(held, selection))
           session == SessionLocal(form.ss)
           update == After(form, SessionBlock(form.ss))
           done == After(update, TransactionsPage_refreshed(update.ss))
           h == [held EXCEPT !.row =
                    TransactionRow(held.row.id, FormInput(account_id, selection, text))]
           u == TransactionRepository_update_result(session, h)
       IN  IF verdict # "valid"
           THEN /\ sessions' = form.ss
                /\ last' = UiCall("TransactionForm.accept_form", "rejected", FALSE, TRUE,
                                  form.opened)
                /\ UNCHANGED <<transactions, held>>
           ELSE IF u.ret # "returned"
           THEN /\ sessions' = update.ss
                /\ transactions' = u.rows
                /\ held' = u.held
                /\ last' = UiCall("TransactionForm.accept_form", u.ret, TRUE, TRUE,
                                  update.opened)
           ELSE /\ sessions' = done.ss
                /\ transactions' = u.rows
                /\ held' \in Clicked(transactions', {})
                /\ last' = UiCall("TransactionForm.accept_form", "returned", FALSE, FALSE,
                                  done.opened)
    /\ UNCHANGED <<categories, uiFrame>>

\* TransactionsPage.delete_transaction(transaction) after the question box;
\* with selected, called from delete_selected_transaction inside its
\* session, for the row get_by_id finds.  No except clause: an exception of
\* delete() leaves the handler.
TransactionsPage_delete_transaction(selected, reply, fails) ==
    /\ seeded
    /\ held.kind = "transaction"
    /\ LET outer == SessionLocal(sessions)
           ss == IF selected THEN sessions \cup {outer} ELSE sessions
           session == SessionLocal(ss)
           found == TransactionRepository_get_by_id(held.row.id) # {}
           refreshed == Finally_close(TransactionsPage_refreshed(ss \cup {session}), session)
           plain == SessionBlock(ss)
           inner == IF selected /\ ~found THEN NoSessions(ss)
                    ELSE IF reply # "Yes" THEN NoSessions(ss)
                    ELSE IF found /\ ~fails THEN refreshed
                    ELSE plain
           run == IF selected THEN Finally_close(inner, outer) ELSE inner
       IN  /\ sessions' = run.ss
           /\ IF selected /\ ~found
              THEN /\ reply = "No" /\ ~fails
                   /\ last' = UiCall("TransactionsPage.delete_transaction", "not selected",
                                     FALSE, FALSE, run.opened)
                   /\ UNCHANGED <<transactions, held>>
              ELSE IF reply # "Yes"
              THEN /\ ~fails
                   /\ last' = UiCall("TransactionsPage.delete_transaction", "cancelled",
                                     FALSE, FALSE, run.opened)
                   /\ UNCHANGED <<transactions, held>>
              ELSE IF ~found
              THEN /\ ~fails
                   /\ last' = UiCall("TransactionsPage.delete_transaction", "False",
                                     FALSE, TRUE, run.opened)
                   /\ UNCHANGED <<transactions, held>>
              ELSE IF fails
              THEN /\ last' = UiCall("TransactionsPage.delete_transaction",
                                     "OperationalError", FALSE, FALSE, run.opened)
                   /\ UNCHANGED <<transactions, held>>
              ELSE /\ transactions' = {t \in transactions : t.id # held.row.id}
                   /\ held' \in Clicked(transactions', {})
                   /\ last' = UiCall("TransactionsPage.delete_transaction", "True",
                                     FALSE, TRUE, run.opened)
    /\ UNCHANGED <<categories, uiFrame>>

\* the data of the category dialog; the names hold none of the characters
\* validate_category_name rejects
UiCategoryData ==
    {Category("Groceries", "income", "#3498db"), Category("", "expense", "#3498db")}

\* CategoryForm.validate: validate_category_name of the stripped name and
\* validate_color_hex of a colour of the colour dialog
CategoryForm_validate(data) == data.name # ""

\* CategoriesPage.add_category: the dialog accepted, form.validate(), then
\* save_category(data, None) creates the row in a session of its own (no
\* except clause), then populate_table() and data_changed.emit()
CategoriesPage_add_category(data, fails) ==
    /\ seeded
    /\ LET save == SessionBlock(sessions)
           done == After(save, CategoriesPage_refreshed(save.ss))
       IN  IF ~CategoryForm_validate(data)
           THEN /\ ~fails
                /\ last' = UiCall("CategoriesPage.save_category", "rejected", FALSE, TRUE,
                                  0)
                /\ UNCHANGED <<categories, sessions, held>>
           ELSE IF fails
           THEN /\ sessions' = save.ss
                /\ last' = UiCall("CategoriesPage.save_category", "OperationalError",
                                  FALSE, FALSE, save.opened)
                /\ UNCHANGED <<categories, held>>
           ELSE /\ NextId(categories)
                       <= Len(expense_categories \o income_categories) + MaxUserCategories
                /\ categories' = categories \cup {CategoryRow(NextId(categories), data)}
                /\ sessions' = done.ss
                /\ held' \in Clicked({}, categories')
                /\ last' = UiCall("CategoriesPage.save_category", "returned", FALSE, FALSE,
                                  done.opened)
    /\ UNCHANGED <<transactions, uiFrame>>

\* CategoriesPage.edit_category(category): the dialog accepted,
\* form.validate(), then save_category(data, category) assigns the data to
\* the category and calls update() in a session of its own (no except clause)
CategoriesPage_edit_category(data) ==
    /\ seeded
    /\ held.kind = "category"
    /\ LET session == SessionLocal(sessions)
           save == SessionBlock(sessions)
           done == After(save, CategoriesPage_refreshed(save.ss))
           h == [held EXCEPT !.row = CategoryRow(held.row.id, data)]
           u == CategoryRepository_update_result(session, h)
       IN  IF ~CategoryForm_validate(data)
           THEN /\ last' = UiCall("CategoriesPage.save_category", "rejected", FALSE, TRUE,
                                  0)
                /\ UNCHANGED <<categories, sessions, held>>
           ELSE IF u.ret # "returned"
           THEN /\ sessions' = save.ss
                /\ categories' = u.rows
                /\ held' = u.held
                /\ last' = UiCall("CategoriesPage.save_category", u.ret, FALSE, FALSE,
                                  save.opened)
           ELSE /\ sessions' = done.ss
                /\ categories' = u.rows
                /\ held' \in Clicked({}, categories')
                /\ last' = UiCall("CategoriesPage.save_category", "returned", FALSE, FALSE,
                                  done.opened)
    /\ UNCHANGED <<transactions, uiFrame>>

\* Category.transactions and Category.budgets declared passive_deletes="all":
\* the flush leaves the rows that refer to the category alone
Referenced_passive(category_id) == FALSE

\* the flush of session.delete(category) sets category_id of the category's
\* transactions and budgets to NULL; rows refer to it, so NOT NULL fails
Referenced(category_id) ==
    \/ \E t \in transactions : t.category_id = category_id
    \/ \E b \in budgets : b.category_id = category_id

\* CategoriesPage.delete_category(category): one session around
\* get_by_category, the question box when the category has transactions (the
\* early return on No), delete(), and on True populate_table() and
\* data_changed.emit().  No except clause.
CategoriesPage_delete_category(reply, fails) ==
    /\ seeded
    /\ held.kind = "category"
    /\ LET session == SessionLocal(sessions)
           used == \E t \in transactions : t.category_id = held.row.id
           found == CategoryRepository_get_by_id(held.row.id) # {}
           referenced == Referenced(held.row.id)
           plain == SessionBlock(sessions)
           done == Finally_close(CategoriesPage_refreshed(sessions \cup {session}), session)
       IN  IF used /\ reply # "Yes"
           THEN /\ ~fails
                /\ sessions' = plain.ss
                /\ last' = UiCall("CategoriesPage.delete_category", "cancelled", FALSE,
                                  FALSE, plain.opened)
                /\ UNCHANGED <<categories, held>>
           ELSE IF ~found
           THEN /\ ~fails /\ reply = "Yes"
                /\ sessions' = plain.ss
                /\ last' = UiCall("CategoriesPage.delete_category", "False", FALSE, TRUE,
                                  plain.opened)
                /\ UNCHANGED <<categories, held>>
           ELSE IF referenced \/ fails
           THEN /\ reply = "Yes"
                /\ referenced => ~fails
                /\ sessions' = plain.ss
                /\ last' = UiCall("CategoriesPage.delete_category",
                                  IF referenced THEN "IntegrityError" ELSE "OperationalError",
                                  FALSE, FALSE, plain.opened)
                /\ UNCHANGED <<categories, held>>
           ELSE /\ reply = "Yes"
                /\ categories' =
                       {IF c.parent_id = held.row.id THEN [c EXCEPT !.parent_id = NoId] ELSE c :
                           c \in {x \in categories : x.id # held.row.id}}
                /\ sessions' = done.ss
                /\ held' \in Clicked({}, categories')
                /\ last' = UiCall("CategoriesPage.delete_category", "True", FALSE, TRUE,
                                  done.opened)
    /\ UNCHANGED <<transactions, uiFrame>>

FormSelectionSpace ==
    {[type |-> t, category_id |-> c] :
        t \in {"expense", "income"}, c \in UiCategoryIds \cup {NoId}}

\* the amount texts an edit leaves in the form
EditAmountTexts == {<<"0">>, <<"4", "2", ".", "5", "0">>}

InitUi ==
    /\ accounts = {} /\ categories = {} /\ transactions = {} /\ budgets = {}
    /\ sessions = {} /\ held = NoEntity /\ last = NoCall
    /\ NoApplication
    /\ arg = <<>> /\ res = NoRes

NextUi ==
    \/ \E fails \in BOOLEAN : DatabaseManager_create_default_data(fails)
    \/ TransactionsPage_refresh_data
    \/ CategoriesPage_refresh_data
    \/ DashboardPage_refresh_data
    \/ \E account_id \in UiAccountIds \cup {NoId}, selection \in FormSelectionSpace,
          text \in AmountTexts, fails \in BOOLEAN :
           TransactionsPage_add_transaction(account_id, selection, text, fails)
    \/ \E account_id \in UiAccountIds \cup {NoId}, selection \in FormSelectionSpace,
          text \in EditAmountTexts :
           TransactionsPage_edit_transaction(account_id, selection, text)
    \/ \E selected \in BOOLEAN, reply \in {"Yes", "No"}, fails \in BOOLEAN :
           TransactionsPage_delete_transaction(selected, reply, fails)
    \/ \E data \in UiCategoryData, fails \in BOOLEAN : CategoriesPage_add_category(data, fails)
    \/ \E data \in UiCategoryData : CategoriesPage_edit_category(data)
    \/ \E reply \in {"Yes", "No"}, fails \in BOOLEAN :
           CategoriesPage_delete_category(reply, fails)

SpecUi == InitUi /\ [][NextUi]_vars

(* C12: every operation that opens a store session closes every session it *)
(* opened before it returns, on the normal path, on every early return and  *)
(* when an exception propagates: between operations no session is open.     *)
C12_SessionsClosed == sessions = {}

\* an exception left a handler that had opened a session, and a handler
\* returned after opening sessions inside sessions
C12_Witness ==
    /\ last.op = "CategoriesPage.delete_category"
    /\ last.ret = "IntegrityError"
    /\ ~last.caught
    /\ last.opened >= 1
    /\ sessions = {}

\* the amount text is empty, not a number, zero or negative
IsRejectedAmount(text) ==
    \/ Strip(text) = <<>>
    \/ Decimal(text).kind \notin {"finite", "Infinity"}
    \/ DecimalLeZero(Decimal(text))

(* C18: after any sequence of saves through TransactionForm every stored    *)
(* transaction has an amount strictly greater than zero; a submission whose *)
(* amount is empty, non-numeric, zero or negative is rejected before any    *)
(* create or update and leaves the store unchanged.                         *)
C18_StoredAmountPositive ==
    [][/\ \A t \in transactions' : TransactionEntity(t).amount > 0
       /\ (last'.op = "TransactionForm.accept_form" /\ last'.ret = "rejected")
              => transactions' = transactions
       /\ \A text \in AmountTexts :
              IsRejectedAmount(text) =>
                  TransactionForm_validate_form(1, 1, text) # "valid"]_vars

(* C19: after any sequence of presentation-layer actions every stored       *)
(* transaction's type equals the type of the category it references.        *)
C19_TypeMatchesCategory ==
    \A t \in transactions : \A c \in categories :
        c.id = t.category_id => t.type = c.type

StorageFailures == {"OperationalError", "IntegrityError", "InvalidRequestError"}

SaveAndDeleteHandlers ==
    {"TransactionForm.accept_form", "CategoriesPage.save_category",
     "TransactionsPage.delete_transaction", "CategoriesPage.delete_category"}

(* C20: when a user-triggered save or delete hits a storage failure, the    *)
(* failure is caught at that action and shown as a message, and the entity  *)
(* object a page or form still holds has the field values of its stored row *)
C20_FailureSurfaced ==
    (last.op \in SaveAndDeleteHandlers /\ last.ret \in StorageFailures) =>
        /\ last.caught
        /\ last.message
        /\ held.kind = "transaction" =>
               \A r \in transactions : r.id = held.row.id => held.row = TransactionEntity(r)
        /\ held.kind = "category" =>
               \A r \in categories : r.id = held.row.id => held.row = r

-----------------------------------------------------------------------------
(* data/repo.py: BudgetRepository *)

\* budget = session.query(Budget).filter(Budget.id == id).first(), kept by
\* the caller
Load_budget(s, id) ==
    /\ s \in sessions
    /\ \E e \in {b \in budgets : b.id = id} : held' = Loaded(s, "budget", e)
    /\ UNCHANGED <<storeVars, sessions, last, dateVars, cfgVars>>

\* the caller assigns the budget's attributes
Mutate_budget(in) ==
    /\ held.kind = "budget"
    /\ held' = [held EXCEPT !.row = BudgetRow(held.row.id, in)]
    /\ UNCHANGED <<storeVars, sessions, last, dateVars, cfgVars>>

\* BudgetRepository(session s).update(budget): commit() flushes the budget
\* when it is persistent in s, refresh() raises InvalidRequestError when not
BudgetRepository_update(s) ==
    /\ s \in sessions
    /\ held.kind = "budget"
    /\ IF held.sess = s /\ \E r \in budgets : r.id = held.row.id
       THEN /\ budgets' = {IF r.id = held.row.id THEN held.row ELSE r : r \in budgets}
            /\ last' = [op |-> "BudgetRepository.update", id |-> held.row.id,
                        ret |-> "returned", entity |-> held.row]
       ELSE /\ UNCHANGED budgets
            /\ last' = [op |-> "BudgetRepository.update", id |-> held.row.id,
                        ret |-> "InvalidRequestError", entity |-> held.row]
    /\ UNCHANGED <<accounts, categories, transactions, sessions, held, dateVars, cfgVars>>

\* the values get_by_category_and_month may return: .first() of a query
\* without ORDER BY is any of the matching rows, None when there is none
BudgetRepository_get_by_category_and_month(category_id, month) ==
    LET rows == {b \in budgets : b.category_id = category_id /\ b.month = month}
    IN  IF rows = {} THEN {None} ELSE rows

\* get_by_month: the rows of the month ORDER BY category_id
BudgetRepository_get_by_month(month) ==
    LET rows == {b \in budgets : b.month = month}
    IN  Ordered(rows, [b \in rows |-> b.category_id])

MaxBudgets == 2     \* budgets stored where budgets of one pair are looked for

BudgetMonths == {"2024-03", "2024-04"}

BudgetPairInputs ==
    {[category_id |-> c, month |-> m, amount_cap |-> 100000] :
        c \in 1..MaxCategoryId, m \in BudgetMonths}

InitBudget ==
    /\ accounts = {}
    /\ categories = {CategoryRow(1, Food), CategoryRow(2, Salary)}
    /\ transactions = {} /\ budgets = {}
    /\ sessions = {} /\ held = NoEntity /\ last = NoCall
    /\ NoApplication
    /\ arg = <<>> /\ res = NoRes

NextBudget ==
    \/ get_session_sync
    \/ \E s \in 1..MaxSessions : session_close(s)
    \/ \E in \in BudgetPairInputs : BudgetRepository_create_upto(MaxBudgets, in)
    \/ \E s \in 1..MaxSessions, id \in 1..MaxBudgets : Load_budget(s, id)
    \/ \E in \in BudgetPairInputs : Mutate_budget(in)
    \/ \E s \in 1..MaxSessions : BudgetRepository_update(s)
    \/ \E id \in 1..(MaxBudgets + 1) : BudgetRepository_delete(id)

SpecBudget == InitBudget /\ [][NextBudget]_vars

(* C21: after any sequence of budget create, update and delete operations   *)
(* the store holds at most one budget per (category_id, month) pair:        *)
(* get_by_category_and_month returns the single budget of the pair or None  *)
(* and get_by_month lists each category at most once.                       *)
C21_OneBudgetPerPair ==
    \A month \in BudgetMonths :
        /\ \A category_id \in 1..MaxCategoryId :
               /\ Cardinality({b \in budgets : b.category_id = category_id
                                                  /\ b.month = month}) <= 1
               /\ Cardinality(BudgetRepository_get_by_category_and_month(category_id, month))
                      = 1
        /\ \A listed \in BudgetRepository_get_by_month(month) :
               \A i, j \in DOMAIN listed :
                   listed[i].category_id = listed[j].category_id => i = j

-----------------------------------------------------------------------------
(* data/repo.py: TransactionRepository.search *)

\* letters outside ASCII
UpperEacute == "E-acute"
LowerEacute == "e-acute"

\* a note column: NULL, or a text as a sequence of characters
NullNote == [null |-> TRUE, text |-> <<>>]
Note(text) == [null |-> FALSE, text |-> text]

\* lower() of SQLite folds the ASCII letters only
SqliteLower(c) == CASE c = "A" -> "a" [] c = "B" -> "b" [] OTHER -> c

\* str.lower() of Python folds every cased letter
StrLower(c) ==
    CASE c = "A" -> "a" [] c = "B" -> "b" [] c = UpperEacute -> LowerEacute [] OTHER -> c

\* lower(text) LIKE lower(pattern) without ESCAPE: % stands for any run of
\* characters and _ for any one character, in the pattern's %...% and inside
\* the search term alike
RECURSIVE Like(_, _)
Like(text, pattern) ==
    IF pattern = <<>> THEN text = <<>>
    ELSE IF Head(pattern) = "%"
    THEN Like(text, Tail(pattern)) \/ (text # <<>> /\ Like(Tail(text), pattern))
    ELSE /\ text # <<>>
         /\ Head(pattern) = "_" \/ SqliteLower(Head(pattern)) = SqliteLower(Head(text))
         /\ Like(Tail(text), Tail(pattern))

\* the rows Transaction.note.ilike(f"%{search_term}%") keeps
IlikeRows(search_term) ==
    {TransactionEntity(t) :
        t \in {r \in transactions :
                  ~r.note.null /\ Like(r.note.text, <<"%">> \o search_term \o <<"%">>)}}

\* search(search_term): the rows kept, ORDER BY desc(Transaction.date)
TransactionRepository_search(search_term) ==
    Ordered(IlikeRows(search_term),
            [t \in IlikeRows(search_term) |-> DateDescKey(t)])

SearchNotes ==
    {NullNote, Note(<<>>), Note(<<"a", "b">>), Note(<<"A">>), Note(<<"a", "_", "b">>),
     Note(<<"5", "%">>), Note(<<UpperEacute>>)}

SearchInputs ==
    {[account_id |-> 1, category_id |-> 1, date |-> d, amount |-> 42500,
      type |-> "expense", note |-> n] : d \in {Mar15}, n \in SearchNotes}
      \cup {[account_id |-> 1, category_id |-> 1, date |-> Mar31, amount |-> 42500,
             type |-> "expense", note |-> Note(<<"a", "b">>)]}

SearchTerms ==
    {<<>>, <<"a">>, <<"B">>, <<"a", "b">>, <<"_">>, <<"%">>, <<"a", "%", "b">>,
     <<LowerEacute>>, <<"x">>}

Call_search(search_term) ==
    /\ \E found \in TransactionRepository_search(search_term) :
           res' = [fn |-> "search", a |-> search_term, b |-> found]
    /\ arg' = search_term
    /\ UNCHANGED <<storeVars, ormVars, cfgVars>>

InitSearch ==
    /\ accounts = {AccountRow(1, in) : in \in AccountInputs}
    /\ categories = {CategoryRow(1, Food)}
    /\ transactions = {} /\ budgets = {}
    /\ sessions = {} /\ held = NoEntity /\ last = NoCall
    /\ NoApplication
    /\ arg = <<>> /\ res = NoRes

NextSearch ==
    \/ \E in \in SearchInputs : TransactionRepository_create(in)
    \/ \E search_term \in SearchTerms : Call_search(search_term)

SpecSearch == InitSearch /\ [][NextSearch]_vars

\* term is a substring of text, letters compared without regard to case
Contains(text, term) ==
    \E i \in 0..(Len(text) - Len(term)) :
        \A k \in 1..Len(term) : StrLower(text[i + k]) = StrLower(term[k])

(* C22: search(term) returns exactly the stored transactions whose note is  *)
(* present and contains term as a literal substring, compared without       *)
(* regard to case, for every term (% and _ included), ordered by date       *)
(* descending; a transaction with no note is never returned.                *)
C22_SearchLiteral ==
    res.fn = "search" =>
        /\ Range(res.b) =
               {TransactionEntity(t) :
                   t \in {r \in transactions : ~r.note.null /\ Contains(r.note.text, res.a)}}
        /\ \A i, j \in DOMAIN res.b :
               /\ i < j => res.b[i].date >= res.b[j].date
               /\ i # j => res.b[i] # res.b[j]
        /\ \A i \in DOMAIN res.b : ~res.b[i].note.null

-----------------------------------------------------------------------------
(* app/ui/pages/dashboard_page.py: the KPI cards of a month, over a store   *)
(* whose transactions carry any time of day                                  *)

TransactionRepository_get_count_by_date_range(start_date, end_date) ==
    Cardinality({t \in transactions : t.date >= start_date /\ t.date <= end_date})

\* update_kpi_cards: the values put on the four cards
DashboardPage_update_kpi_cards(month) ==
    LET range == Dashboard_get_month_date_range(month)
        totals == TransactionRepository_get_totals_by_type(range[1], range[2])
    IN  [income |-> totals[1], expense |-> totals[2], net |-> totals[1] - totals[2],
         transaction_count |->
             TransactionRepository_get_count_by_date_range(range[1], range[2])]

\* transactions as TransactionRepository.create takes them: a datetime at any
\* time of the day
DayTransactionInputs ==
    {AggInput(c.id, d, c.type, amount) :
        c \in {[id |-> 1, type |-> "expense"], [id |-> 2, type |-> "income"]},
        d \in {Mar01, Mar31, Mar31 + 1, Apr01},
        amount \in {42500, 1000}}

InitDay ==
    /\ accounts = {AccountRow(1, in) : in \in AccountInputs}
    /\ categories = {CategoryRow(1, Food), CategoryRow(2, Salary)}
    /\ transactions = {} /\ budgets = {}
    /\ sessions = {} /\ held = NoEntity /\ last = NoCall
    /\ NoApplication
    /\ arg = <<>> /\ res = NoRes

NextDay ==
    \/ \E in \in DayTransactionInputs : TransactionRepository_create(in)
    \/ \E id \in 1..MaxTxId : TransactionRepository_delete(id)

SpecDay == InitDay /\ [][NextDay]_vars

\* the ids of the stored transactions of a type whose calendar day is in a month
MonthIds(ym, type) ==
    {t.id : t \in {x \in transactions : x.type = type /\ InMonth(x, ym[1], ym[2])}}

(* C23: the month-scoped callers (dashboard totals and count, category      *)
(* totals, daily net) pass an end bound that is the last instant of the     *)
(* month's last day, so every stored transaction whose calendar day lies in *)
(* the month, at any time of day, the last day included, is counted in the  *)
(* month's totals, count, category totals and daily net.                    *)
C23_LastDayCounted ==
    \A ym \in MonthsYm :
        LET month == FormatMonth(ym[1], ym[2])
            kpi == DashboardPage_update_kpi_cards(month)
            daily == MonthlyTrendChart_get_daily_data(month)
        IN  /\ kpi.income = SumOver(MonthIds(ym, "income"), MaxStoredId, AmountOf)
            /\ kpi.expense = SumOver(MonthIds(ym, "expense"), MaxStoredId, AmountOf)
            /\ kpi.transaction_count =
                   Cardinality(MonthIds(ym, "income") \cup MonthIds(ym, "expense"))
            /\ \A d \in CategoryBarChart_get_category_data(month) :
                   \A c \in categories :
                       (c.type = "expense" /\ CategoryTotal(c, ym, "expense") > 0)
                           => c.name \in DOMAIN d
                              /\ d[c.name] = CategoryTotal(c, ym, "expense")
            /\ \A i \in 1..Len(daily) : daily[i].net = DayNet(Ymd2Ord(ym[1], ym[2], i))

-----------------------------------------------------------------------------
(* app/ui/main_window.py: MainWindow.populate_month_combo *)

ComboRange == 12       \* for i in range(12)

NoIndex == -1          \* currentIndex() of an empty selector

\* the body of the loop for i, i + 1, ...: month_date starts anew from
\* current_date in every pass and is moved back by one month when i > 0;
\* items holds the userData of the entries, index the current index
RECURSIVE PopulateLoop(_, _, _, _, _)
PopulateLoop(i, current_date, window_month, items, index) ==
    IF i >= ComboRange THEN [items |-> items, currentIndex |-> index]
    ELSE LET month_date ==
                 IF i > 0
                 THEN IF current_date.month_num = 1
                      THEN [year |-> current_date.year - 1, month_num |-> 12]
                      ELSE [year |-> current_date.year,
                            month_num |-> current_date.month_num - 1]
                 ELSE current_date
             month_str == FormatMonth(month_date.year, month_date.month_num)
             \* addItem makes the first entry of an empty selector current
             added == IF index = NoIndex THEN 0 ELSE index
         IN  PopulateLoop(i + 1, current_date, window_month,
                          Append(items, month_str),
                          IF month_str = window_month THEN i ELSE added)

\* populate_month_combo with datetime.now() in the month now
MainWindow_populate_month_combo(now, window_month) ==
    PopulateLoop(0, ParseMonth(now), window_month, <<>>, NoIndex)

\* months before the clock's month that current_month can hold
ComboOffsets == 0..12

MonthBefore(month, n) ==
    LET k == MonthIndex(month) - 1 - n
    IN  FormatMonth(k \div 12, (k % 12) + 1)

Call_populate_month_combo ==
    /\ WindowOpen
    /\ res' = [fn |-> "populate_month_combo", a |-> arg,
               b |-> MainWindow_populate_month_combo(arg, current_month)]
    /\ UNCHANGED <<arg, storeVars, ormVars, cfgVars>>

InitCombo ==
    /\ arg \in MonthTokens
    /\ \E n \in ComboOffsets : current_month = MonthBefore(arg, n)
    /\ res = NoRes
    /\ accounts = {} /\ categories = {} /\ transactions = {} /\ budgets = {}
    /\ sessions = {} /\ held = NoEntity /\ last = NoCall
    /\ file = NoFile /\ config = NoConfig /\ viewed = <<>> /\ seeded = FALSE
    /\ widgets = NoWidgets

NextCombo == Call_populate_month_combo

SpecCombo == InitCombo /\ [][NextCombo]_vars

(* C24: populate_month_combo fills the selector with exactly 12 distinct    *)
(* entries: the current month, then each of the previous 11 months in       *)
(* consecutive descending order across the year boundary, each with its own *)
(* "YYYY-MM" token, the entry whose token equals current_month selected.    *)
C24_MonthCombo ==
    res.fn = "populate_month_combo" =>
        LET items == res.b.items
        IN  /\ Len(items) = 12
            /\ \A i, j \in 1..Len(items) : i # j => items[i] # items[j]
            /\ \A i \in 1..Len(items) : items[i] = MonthBefore(res.a, i - 1)
            /\ \A i \in 1..Len(items) :
                   items[i] = current_month => res.b.currentIndex = i - 1

-----------------------------------------------------------------------------
(* Claims relating the aggregates of a month to each other *)

\* sum(daily_data.values())
RECURSIVE SumNet(_)
SumNet(daily_data) ==
    IF daily_data = <<>> THEN 0 ELSE Head(daily_data).net + SumNet(Tail(daily_data))

(* C25: for every month and every store state the values of daily_net(M)    *)
(* sum to income_total minus expense_total of                               *)
(* get_totals_by_type(month_to_range(M)): the dashboard's Net Amount and    *)
(* the daily-net chart agree.                                               *)
C25_NetAgrees ==
    \A month \in AggMonths :
        SumNet(MonthlyTrendChart_get_daily_data(month))
            = DashboardPage_update_kpi_cards(month).net

\* sum(category_data.values())
RECURSIVE SumValues(_)
SumValues(category_data) ==
    IF DOMAIN category_data = {} THEN 0
    ELSE LET name == CHOOSE k \in DOMAIN category_data : TRUE
         IN  category_data[name]
                 + SumValues([k \in (DOMAIN category_data) \ {name} |-> category_data[k]])

(* C26: for every month and any set of categories (names need not be        *)
(* unique) the values of category_totals(M, expense) sum to the sum of the  *)
(* amounts of all expense transactions dated in the month whose category is *)
(* an expense category: keying the totals by category name drops no amount  *)
(* and counts none twice.                                                   *)
C26_CategoryTotalsComplete ==
    \A ym \in MonthsYm :
        \A d \in CategoryBarChart_get_category_data(FormatMonth(ym[1], ym[2])) :
            SumValues(d) =
                SumOver({t.id : t \in {x \in transactions :
                            /\ x.type = "expense" /\ InMonth(x, ym[1], ym[2])
                            /\ \E c \in categories :
                                   c.id = x.category_id /\ c.type = "expense"}},
                        MaxStoredId, AmountOf)

-----------------------------------------------------------------------------
(* C27: whenever no event handler is running, from startup on (whatever     *)
(* last_month the configuration holds) and after any sequence of            *)
(* previous_month, next_month and month-selector changes, the main window's *)
(* current_month, the month shown in the toolbar label and the              *)
(* current_month of the dashboard page and of the transactions page denote  *)
(* the same month.                                                          *)
C27_MonthsAgree ==
    WindowOpen =>
        /\ widgets.month_label = current_month
        /\ widgets.dashboard_page.current_month = current_month
        /\ widgets.transactions_page.current_month = current_month

-----------------------------------------------------------------------------
(* app/ui/main_window.py and app/ui/pages: the data_changed wiring.  A page *)
(* shows the rows it loaded last; data_changed.emit() runs the connected    *)
(* refresh_data slots one after another, each one a step.                   *)

MaxRefreshes == 2   \* refreshes of one page counted after one emit

Pages == {"dashboard_page", "transactions_page", "categories_page", "budgets_page"}

\* the pages that show rows of the store
DataPages == {"dashboard_page", "transactions_page", "categories_page"}

\* setup_connections: the refresh_data slots connected to a page's
\* data_changed, in the order they were connected; nothing is connected to
\* the import/export page
Connections(page) ==
    CASE page = "dashboard_page" -> <<"transactions_page", "categories_page", "budgets_page">>
      [] page = "transactions_page" -> <<"dashboard_page", "categories_page", "budgets_page">>
      [] page = "categories_page" -> <<"dashboard_page", "transactions_page", "budgets_page">>
      [] page = "budgets_page" -> <<"dashboard_page", "transactions_page", "categories_page">>
      [] OTHER -> <<>>

Rows(category_rows, transaction_rows) ==
    [categories |-> category_rows, transactions |-> transaction_rows]

\* load_data of a page: the dashboard's cards and charts, the transactions
\* page's filter options and table, the categories page's table; the budgets
\* page and the import/export page keep BasePage.load_data, which does nothing
LoadData(w, page, rows) ==
    IF page \in DataPages THEN [w EXCEPT ![page].shown = rows] ELSE w

\* refresh_data that ends with self.data_changed.emit()
BasePage_refresh_data_emitting(w, page, rows) ==
    [widgets |-> LoadData(w, page, rows), emitted |-> Connections(page)]

\* BasePage.refresh_data: load_data(); no signal is emitted
BasePage_refresh_data(w, page, rows) ==
    [widgets |-> LoadData(w, page, rows), emitted |-> <<>>]

\* the table of the transactions page after apply_filters()
TransactionsTable(w, rows) ==
    [w EXCEPT !.transactions_page.shown.transactions = rows.transactions]

\* page.data_changed.emit(): the connected slots are to run
Emit(w, page) ==
    [w EXCEPT !.slots = Connections(page), !.refreshed = [p \in Pages |-> 0]]

pagesFrame == <<accounts, budgets, sessions, held, dateVars, file, config, current_month,
                viewed, seeded>>

Idle == widgets.slots = <<>>

\* the next connected slot runs: refresh_data of its page
Slot_refresh_data ==
    /\ ~Idle
    /\ LET page == Head(widgets.slots)
           r == BasePage_refresh_data(widgets, page, Rows(categories, transactions))
       IN  /\ widgets.refreshed[page] < MaxRefreshes
           /\ widgets' = [r.widgets EXCEPT !.slots = r.emitted \o Tail(widgets.slots),
                                           !.refreshed[page] = @ + 1]
    /\ UNCHANGED <<categories, transactions, last, pagesFrame>>

PageCall(op, emitter) == [op |-> op, ret |-> "returned", emitter |-> emitter]

\* MainWindow.on_navigation_changed: the page of the row is shown
MainWindow_on_navigation_changed(page) ==
    /\ Idle
    /\ page # widgets.stacked_widget
    /\ widgets' = [widgets EXCEPT !.stacked_widget = page]
    /\ UNCHANGED <<categories, transactions, last, pagesFrame>>

\* MainWindow.add_transaction, the toolbar's button: the form is accepted
\* (create_transaction stored the row), then current_page.refresh_data()
MainWindow_add_transaction(in) ==
    /\ Idle
    /\ NextId(transactions) <= MaxTxId
    /\ transactions' = transactions \cup {TransactionRow(NextId(transactions), in)}
    /\ LET r == BasePage_refresh_data(widgets, widgets.stacked_widget,
                                      Rows(categories, transactions'))
       IN  widgets' = [r.widgets EXCEPT !.slots = r.emitted]
    /\ last' = PageCall("MainWindow.add_transaction", "none")
    /\ UNCHANGED <<categories, pagesFrame>>

\* TransactionsPage.add_transaction with the form accepted: apply_filters()
\* and data_changed.emit()
TransactionsPage_add_transaction_accepted(in) ==
    /\ Idle
    /\ NextId(transactions) <= MaxTxId
    /\ transactions' = transactions \cup {TransactionRow(NextId(transactions), in)}
    /\ widgets' = Emit(TransactionsTable(widgets, Rows(categories, transactions')),
                       "transactions_page")
    /\ last' = PageCall("TransactionsPage.add_transaction", "transactions_page")
    /\ UNCHANGED <<categories, pagesFrame>>

\* TransactionsPage.delete_transaction, confirmed, delete() returned True
TransactionsPage_delete_transaction_deleted(transaction_id) ==
    /\ Idle
    /\ transaction_id \in Ids(widgets.transactions_page.shown.transactions)
    /\ transaction_id \in Ids(transactions)
    /\ transactions' = {t \in transactions : t.id # transaction_id}
    /\ widgets' = Emit(TransactionsTable(widgets, Rows(categories, transactions')),
                       "transactions_page")
    /\ last' = PageCall("TransactionsPage.delete_transaction", "transactions_page")
    /\ UNCHANGED <<categories, pagesFrame>>

\* CategoriesPage.add_category with the dialog saved: populate_table() and
\* data_changed.emit()
CategoriesPage_add_category_saved(in) ==
    /\ Idle
    /\ NextId(categories) <= MaxCategoryId
    /\ categories' = categories \cup {CategoryRow(NextId(categories), in)}
    /\ widgets' = Emit(LoadData(widgets, "categories_page",
                                Rows(categories', transactions)), "categories_page")
    /\ last' = PageCall("CategoriesPage.add_category", "categories_page")
    /\ UNCHANGED <<transactions, pagesFrame>>

\* CategoriesPage.delete_category of a category no transaction refers to,
\* delete() returned True
CategoriesPage_delete_category_deleted(category_id) ==
    /\ Idle
    /\ category_id \in Ids(widgets.categories_page.shown.categories)
    /\ category_id \in Ids(categories)
    /\ \A t \in transactions : t.category_id # category_id
    /\ categories' = {c \in categories : c.id # category_id}
    /\ widgets' = Emit(LoadData(widgets, "categories_page",
                                Rows(categories', transactions)), "categories_page")
    /\ last' = PageCall("CategoriesPage.delete_category", "categories_page")
    /\ UNCHANGED <<transactions, pagesFrame>>

PageTransactionInputs == {AggInput(1, Mar15, "expense", 42500)}

PageCategoryInputs == {Rent}

\* the main window right after construction: every page has loaded the store
InitPages ==
    /\ accounts = {AccountRow(1, in) : in \in AccountInputs}
    /\ categories = {CategoryRow(1, Food)}
    /\ transactions = {} /\ budgets = {}
    /\ sessions = {} /\ held = NoEntity /\ last = PageCall("MainWindow.__init__", "none")
    /\ file = NoFile /\ config = NoConfig /\ current_month = ClockMonth /\ viewed = <<>>
    /\ seeded = TRUE
    /\ widgets =
           [month_label |-> ClockMonth,
            dashboard_page |-> [current_month |-> ClockMonth,
                                shown |-> Rows(categories, transactions)],
            transactions_page |-> [current_month |-> ClockMonth,
                                   shown |-> Rows(categories, transactions)],
            categories_page |-> [shown |-> Rows(categories, transactions)],
            stacked_widget |-> "dashboard_page",
            slots |-> <<>>,
            refreshed |-> [p \in Pages |-> 0]]
    /\ arg = <<>> /\ res = NoRes

NextPages ==
    \/ Slot_refresh_data
    \/ \E page \in Pages \cup {"import_export_page"} : MainWindow_on_navigation_changed(page)
    \/ \E in \in PageTransactionInputs : MainWindow_add_transaction(in)
    \/ \E in \in PageTransactionInputs : TransactionsPage_add_transaction_accepted(in)
    \/ \E id \in 1..MaxTxId : TransactionsPage_delete_transaction_deleted(id)
    \/ \E in \in PageCategoryInputs : CategoriesPage_add_category_saved(in)
    \/ \E id \in 1..MaxCategoryId : CategoriesPage_delete_category_deleted(id)

SpecPages == InitPages /\ [][NextPages]_vars

\* a signal under delivery is delivered: the slots run to the end
SpecPagesLive == SpecPages /\ WF_vars(Slot_refresh_data)

(* C28: after any successful create, edit or delete of a transaction or     *)
(* category from any entry point (the toolbar's '+ Transaction' button, the *)
(* transactions page, the categories page), once the handler has returned   *)
(* every data page (dashboard, transactions, categories) has reloaded: no   *)
(* page shows data older than the store.                                    *)
C28_PagesReloaded ==
    Idle => \A page \in DataPages :
                widgets[page].shown = Rows(categories, transactions)

(* C30: emitting data_changed from a page makes each other connected page   *)
(* run refresh_data exactly once and then the cascade stops: a refresh      *)
(* emits no data_changed itself, so the delivery always terminates and      *)
(* control returns to the event loop.                                       *)
C30_CascadeStops ==
    /\ [](\A page \in Pages : widgets.refreshed[page] <= 1)
    /\ []((Idle /\ last.emitter # "none") =>
              \A page \in Pages :
                  widgets.refreshed[page] = IF page = last.emitter THEN 0 ELSE 1)
    /\ [][~Idle => Len(widgets'.slots) < Len(widgets.slots)]_vars
    /\ (~Idle) ~> Idle

\* the transactions page emitted, and the dashboard, the categories page and
\* the budgets page have each refreshed once; the dashboard shows the new row
C30_Witness ==
    /\ Idle
    /\ last = PageCall("TransactionsPage.add_transaction", "transactions_page")
    /\ widgets.refreshed = [p \in Pages |-> IF p = "transactions_page" THEN 0 ELSE 1]
    /\ transactions # {}
    /\ widgets.dashboard_page.shown = Rows(categories, transactions)

-----------------------------------------------------------------------------
====
